---- MODULE Spec2Model ----
(***************************************************************************)
(* A model of gprof2dot's profile engine (src/gprof2dot.py): the event     *)
(* store, Function / Call / Cycle / Profile, Tarjan's cycle detection,     *)
(* call_ratios, the cycle-aware integrate, and Profile.ratio.              *)
(*                                                                         *)
(* Numbers.  Python floats are modelled by exact rationals <<n, d>> with   *)
(* d > 0 and gcd(n, d) = 1, so an equality of two values is an equality of *)
(* the exact quantities; rounding is not modelled.  None is <<>>.          *)
(* Dictionaries keep their insertion order: Profile.functions is the       *)
(* sequence of its keys plus the map fn, Function.calls is a sequence of   *)
(* Call records.  A Cycle object is an integer identity into cyc.          *)
(*                                                                         *)
(* Driver.  The passes run in the order their assertions and docstrings    *)
(* require: validate, find_cycles, call_ratios(CALLS),                     *)
(* integrate(TOTAL_TIME, TIME), ratio(TOTAL_TIME_RATIO, TOTAL_TIME); each  *)
(* action is one whole method call, and a failed assertion ends the run.   *)
(***************************************************************************)
EXTENDS Integers, Sequences, FiniteSets, TLC

VARIABLES
    pc,         \* which pass of the driver has completed
    functions,  \* Profile.functions: the keys, in dict order
    fn,         \* Profile.functions: id -> Function
    cycles,     \* Profile.cycles: a list of Cycle identities
    cyc,        \* every Cycle object ever created: identity -> Cycle
    pevents,    \* Profile.events
    failed,     \* "" or the assertion / exception that ended the run
    depth,      \* deepest recursion seen in the passes so far
    arg,        \* the arguments of the operation under test (unit specs)
    res         \* its result (unit specs), what a pass has logged

vars == <<pc, functions, fn, cycles, cyc, pevents, failed, depth, arg, res>>

-----------------------------------------------------------------------------
(* Bounds of the model *)

NumFunctions == 5
MaxCount == 1
MaxTime == 3
MaxNegative == 1
NumCycles == 2

Ids == 0 .. (NumFunctions - 1)

\* recursion budget of the modelled recursions: far above any depth the
\* code reaches on NumFunctions functions
Fuel == 3 * NumFunctions + 3

\* recursion budget of _tarjan: the functions of one search path are distinct,
\* so the code is never more than NumFunctions activations deep in it
TarjanFuel == NumFunctions + 2

-----------------------------------------------------------------------------
(* Exact rationals standing for Python's floats *)

Abs(x) == IF x < 0 THEN -x ELSE x
Max(a, b) == IF a < b THEN b ELSE a
Min(a, b) == IF b < a THEN b ELSE a

RECURSIVE Gcd(_, _)
Gcd(a, b) == IF b = 0 THEN a ELSE Gcd(b, a % b)

Rat(n, d) ==
    LET g == Gcd(Abs(n), Abs(d))
        s == IF d < 0 THEN -1 ELSE 1
    IN  <<(s * n) \div g, (s * d) \div g>>

None == <<>>
Zero == <<0, 1>>
One == <<1, 1>>
Num(n) == <<n, 1>>

RAdd(a, b) == Rat(a[1] * b[2] + b[1] * a[2], a[2] * b[2])
RSub(a, b) == Rat(a[1] * b[2] - b[1] * a[2], a[2] * b[2])
RMul(a, b) == Rat(a[1] * b[1], a[2] * b[2])
RDiv(a, b) == Rat(a[1] * b[2], a[2] * b[1])
RLt(a, b) == a[1] * b[2] < b[1] * a[2]
RLe(a, b) == a[1] * b[2] <= b[1] * a[2]
RAbs(a) == <<Abs(a[1]), a[2]>>

\* tol = 2 ** -23
tol == <<1, 8388608>>

ratioClampLow(numerator, denominator) ==
    IF denominator[1] = 0 THEN One
    ELSE LET r == RDiv(numerator, denominator)
         IN  IF RLt(One, r) THEN One ELSE r

ratioZeroDiv(numerator, denominator) ==
    IF denominator[1] = 0 THEN Zero
    ELSE LET r == RDiv(numerator, denominator)
         IN  IF RLt(r, Zero) THEN Zero
             ELSE IF RLt(One, r) THEN One
             ELSE r

\* ratio(numerator, denominator): the quotient, 1.0 on a zero denominator,
\* clamped to [0, 1] (the warnings only go to stderr)
ratio(numerator, denominator) ==
    IF denominator[1] = 0 THEN One
    ELSE LET r == RDiv(numerator, denominator)
         IN  IF RLt(r, Zero) THEN Zero
             ELSE IF RLt(One, r) THEN One
             ELSE r

-----------------------------------------------------------------------------
(* Events and the event store (class Object) *)

CALLS == "CALLS"
TIME == "TIME"
TIME_RATIO == "TIME_RATIO"
TOTAL_TIME == "TOTAL_TIME"
TOTAL_TIME_RATIO == "TOTAL_TIME_RATIO"

\* Event.null(): 0 for CALLS, 0.0 for the others
null(event) == Zero

NoEvents == [e \in {} |-> None]

\* Object.__contains__
Has(events, event) == event \in DOMAIN events

SetItemFalsy(events, event, value) ==
    IF value = None \/ value = Zero
    THEN [e \in (DOMAIN events) \ {event} |-> events[e]]
    ELSE [e \in (DOMAIN events) \cup {event} |->
            IF e = event THEN value ELSE events[e]]

\* Object.__getitem__: the value, or UndefinedEvent for the KeyError of the
\* dict
GetItem(events, event) ==
    IF event \in DOMAIN events
    THEN [ret |-> events[event], raised |-> ""]
    ELSE [ret |-> None, raised |-> "UndefinedEvent"]

\* Object.__setitem__: None deletes the entry
SetItem(events, event, value) ==
    IF value = None
    THEN [e \in (DOMAIN events) \ {event} |-> events[e]]
    ELSE [e \in (DOMAIN events) \cup {event} |->
            IF e = event THEN value ELSE events[e]]

\* dict[key] = value on a map whose domain grows
Put(map, key, value) ==
    [k \in (DOMAIN map) \cup {key} |-> IF k = key THEN value ELSE map[k]]

EmptyMap == [k \in {} |-> 0]

\* the elements of a finite set of integers in ascending order
RECURSIVE SetToSeq(_)
SetToSeq(S) ==
    IF S = {} THEN <<>>
    ELSE LET m == CHOOSE x \in S : \A y \in S : x <= y
         IN  <<m>> \o SetToSeq(S \ {m})

SeqToSet(s) == {s[i] : i \in 1 .. Len(s)}

\* Call(callee_id)
NoCycle == 0
NewCall(callee_id, events) ==
    [callee_id |-> callee_id, ratio |-> None, weight |-> None, events |-> events]

\* Function(id, name)
NewFunction(events, callseq) ==
    [calls |-> callseq, cycle |-> NoCycle, weight |-> None, events |-> events]

-----------------------------------------------------------------------------
(* The ingested profile: what a parser hands to the engine *)

\* The calls a profile of the model may hold, as <<caller, callee>>; a
\* function's calls are inserted in this order.  They cover a chain, a callee
\* shared by several callers, a self-loop, the overlapping loops
\* 1 -> {2, 3} -> 4 -> 1 entered from function 0 at 1 and at 4, and the
\* separate loops {1, 2} and {3, 4}.
CandidateCalls ==
    << <<0, 1>>, <<0, 4>>, <<1, 2>>, <<1, 3>>, <<2, 1>>,
       <<2, 2>>, <<2, 4>>, <<3, 4>>, <<4, 1>>, <<4, 3>> >>

Candidates == 1 .. Len(CandidateCalls)

\* the Call objects of function f under choice ch: per candidate None (no
\* such call) or the value of its CALLS event
RECURSIVE CallsOf(_, _, _)
CallsOf(f, ch, i) ==
    IF i > Len(CandidateCalls) THEN <<>>
    ELSE IF CandidateCalls[i][1] = f /\ ch[i] # None
         THEN <<NewCall(CandidateCalls[i][2], SetItem(NoEvents, CALLS, ch[i]))>>
                  \o CallsOf(f, ch, i + 1)
         ELSE CallsOf(f, ch, i + 1)

Ascending == SetToSeq(Ids)
Descending == [i \in 1 .. NumFunctions |-> NumFunctions - i]

\* self time of function f: 1 for all, or growing with the id up to MaxTime
TimeProfiles == {[f \in Ids |-> 1], [f \in Ids |-> Min(f, MaxTime)]}

\* the calls whose count is varied over 0 .. MaxCount; the others are called
\* once or not at all
Weighted == {i \in Candidates : CandidateCalls[i] \in {<<2, 4>>, <<3, 4>>}}
CallChoices ==
    {[i \in Candidates |-> IF i \in Weighted THEN w[i] ELSE p[i]] :
        w \in [Weighted -> {None} \cup {Num(c) : c \in 0 .. MaxCount}],
        p \in [Candidates \ Weighted -> {None, One}]}

\* a freshly parsed profile: functions in dict order, their self times and
\* calls; no cycles, ratios or totals yet
Ingested(order, ch, tm) ==
    /\ pc = "ingested"
    /\ functions = order
    /\ fn = [f \in Ids |->
               NewFunction(SetItem(NoEvents, TIME, Num(tm[f])), CallsOf(f, ch, 1))]
    /\ cycles = <<>>
    /\ cyc = EmptyMap
    /\ pevents = NoEvents
    /\ failed = ""
    /\ depth = 0
    /\ arg = <<>>
    /\ res = <<>>

Init ==
    \E order \in {Ascending, Descending}, ch \in CallChoices, tm \in TimeProfiles :
        Ingested(order, ch, tm)

\* Profiles with negative, zero and inconsistent numbers: counts of
\* -MaxNegative, 0 or MaxCount + 1 on the calls 0 -> 1, 0 -> 4, 1 -> 2,
\* 2 -> 1 and 2 -> 4, self times from -MaxNegative up
NumericCalls ==
    {i \in Candidates :
        CandidateCalls[i] \in {<<0, 1>>, <<0, 4>>, <<1, 2>>, <<2, 1>>, <<2, 4>>}}
NumericCounts == {Num(0 - MaxNegative), Zero, Num(MaxCount + 1)}
NumericCallChoices ==
    {[i \in Candidates |-> IF i \in NumericCalls THEN c[i] ELSE None] :
        c \in [NumericCalls -> {None} \cup NumericCounts]}
NumericTimeProfiles ==
    {[f \in Ids |-> 1], [f \in Ids |-> f - MaxNegative]}

InitNumeric ==
    \E ch \in NumericCallChoices, tm \in NumericTimeProfiles :
        Ingested(Ascending, ch, tm)

-----------------------------------------------------------------------------
(* Profile.validate *)

RECURSIVE validate_calls_skipping(_, _)
validate_calls_skipping(callseq, keys) ==
    IF callseq = <<>> THEN <<>>
    ELSE IF Head(callseq).callee_id \in keys
         THEN <<Head(callseq)>> \o validate_calls_skipping(Tail(callseq), keys)
         ELSE IF Len(callseq) = 1 THEN <<>>
         ELSE <<callseq[2]>> \o validate_calls_skipping(Tail(Tail(callseq)), keys)

\* the calls of one function whose callee id is a key of Profile.functions
RECURSIVE validate_calls(_, _)
validate_calls(callseq, keys) ==
    IF callseq = <<>> THEN <<>>
    ELSE IF Head(callseq).callee_id \in keys
         THEN <<Head(callseq)>> \o validate_calls(Tail(callseq), keys)
         ELSE validate_calls(Tail(callseq), keys)

validate(f) ==
    [f EXCEPT !.calls = validate_calls(@, SeqToSet(functions))]

\* the warnings of one function, in the order of its calls: the caller and
\* the undefined callee id
RECURSIVE validate_warnings(_, _, _)
validate_warnings(caller, callseq, keys) ==
    IF callseq = <<>> THEN <<>>
    ELSE (IF Head(callseq).callee_id \in keys THEN <<>>
          ELSE <<[warning |-> "call to undefined function",
                  callee_id |-> Head(callseq).callee_id, function |-> caller]>>)
         \o validate_warnings(caller, Tail(callseq), keys)

\* what validate() writes to sys.stderr, function after function
RECURSIVE validate_stderr(_)
validate_stderr(order) ==
    IF order = <<>> THEN <<>>
    ELSE validate_warnings(Head(order), fn[Head(order)].calls, SeqToSet(functions))
         \o validate_stderr(Tail(order))

\* res is what the pass wrote to stderr
Validate ==
    /\ pc = "ingested"
    /\ failed = ""
    /\ fn' = [f \in DOMAIN fn |-> validate(fn[f])]
    /\ res' = validate_stderr(functions)
    /\ pc' = "validated"
    /\ UNCHANGED <<functions, cycles, cyc, pevents, failed, depth, arg>>

-----------------------------------------------------------------------------
(* Cycle.add_function *)

\* the value of the one-element set S: TheOne({e(x) : x \in {v}}) is e(v)
\* with v computed once
TheOne(S) == CHOOSE x \in S : TRUE

\* Cycle()
NewCycle == [functions |-> {}, events |-> NoEvents]

\* st.cyc: the Cycle objects, st.fcycle: every function's cycle field.
\* The loop over function.cycle.functions tests "function not in
\* self.functions" after function has been added to self.functions.
RECURSIVE add_function(_, _, _), add_function_others(_, _, _, _)
add_function(st, self, function) ==
    IF st.fail # "" THEN st
    ELSE IF function \in st.cyc[self].functions
    THEN [st EXCEPT !.fail = "assert function not in self.functions"]
    ELSE TheOne({
            IF s2.fail # "" THEN s2 ELSE [s2 EXCEPT !.fcycle[function] = self]
          : s2 \in {IF st.fcycle[function] # NoCycle
                    THEN add_function_others(
                             [st EXCEPT !.cyc[self].functions = @ \cup {function}],
                             self, function,
                             SetToSeq(st.cyc[st.fcycle[function]].functions))
                    ELSE [st EXCEPT !.cyc[self].functions = @ \cup {function}]} })

add_function_others(st, self, function, others) ==
    IF others = <<>> \/ st.fail # "" THEN st
    ELSE add_function_others(
             IF function \notin st.cyc[self].functions
             THEN add_function(st, self, Head(others))
             ELSE st,
             self, function, Tail(others))

RECURSIVE add_members(_, _, _)
add_members(st, cycle, members) ==
    IF members = <<>> THEN st
    ELSE add_members(add_function(st, cycle, Head(members)), cycle, Tail(members))

-----------------------------------------------------------------------------
(* Profile._tarjan and Profile.find_cycles *)

\* st: order, stack, orders, lowlinks, visited of the running search, the
\* Cycle objects and cycle fields it writes, and the recursion depth reached.
\* st.log lists the activations of _tarjan as <<"enter", function, order>> and
\* the returns of the outermost ones as <<"return", root, len(stack)>>.
\* d is the depth of this activation; past the budget (TarjanFuel here, Fuel
\* in the other passes) the recursion is cut and reported in st.fail.
Overflow(st, d) == [st EXCEPT !.fail = "RecursionError", !.depth = Max(@, d)]

InStack(stack, f) == \E i \in 1 .. Len(stack) : stack[i] = f

tarjan_unguarded(st, callee) == TRUE

\* "if callee not in orders"
tarjan_unseen(st, callee) == callee \notin DOMAIN st.orders

tarjan_any_size(members) == Len(members) > 0

\* "if len(members) > 1"
tarjan_is_cycle(members) == Len(members) > 1

\* the statements of _tarjan before its loop
tarjan_enter(function, st, d) ==
    [st EXCEPT !.visited = @ \cup {function},
               !.orders = Put(@, function, st.order),
               !.lowlinks = Put(@, function, st.order),
               !.order = @ + 1,
               !.stack = Append(@, function),
               !.log = Append(@, <<"enter", function, st.order>>),
               !.depth = Max(@, d)]

\* "Strongly connected component found": members = stack[pos:]
tarjan_component(st, pos) ==
    IF tarjan_is_cycle(SubSeq(st.stack, pos + 1, Len(st.stack)))
    THEN add_members([st EXCEPT !.stack = SubSeq(@, 1, pos),
                                !.cyc = Put(@, Cardinality(DOMAIN @) + 1, NewCycle)],
                     Cardinality(DOMAIN st.cyc) + 1,
                     SubSeq(st.stack, pos + 1, Len(st.stack)))
    ELSE [st EXCEPT !.stack = SubSeq(@, 1, pos)]

RECURSIVE _tarjan(_, _, _), tarjan_calls(_, _, _, _)
_tarjan(function, st, d) ==
    IF d > TarjanFuel THEN Overflow(st, d)
    ELSE TheOne({
            IF s1.fail # "" THEN s1
            ELSE IF s1.lowlinks[function] = s1.orders[function]
            THEN tarjan_component(s1, Len(st.stack))
            ELSE s1
          : s1 \in {tarjan_calls(function, fn[function].calls,
                                 tarjan_enter(function, st, d), d)} })

\* the loop of _tarjan over function.calls
tarjan_calls(function, callseq, st, d) ==
    IF callseq = <<>> \/ st.fail # "" THEN st
    ELSE tarjan_calls(function, Tail(callseq),
             IF Head(callseq).callee_id \notin SeqToSet(functions)
             THEN [st EXCEPT !.fail = "KeyError"]
             ELSE IF tarjan_unseen(st, Head(callseq).callee_id)
             THEN TheOne({
                     IF r.fail # "" THEN r
                     ELSE [r EXCEPT !.lowlinks[function] =
                              Min(@, r.lowlinks[Head(callseq).callee_id])]
                   : r \in {_tarjan(Head(callseq).callee_id, st, d + 1)} })
             ELSE IF InStack(st.stack, Head(callseq).callee_id)
             THEN [st EXCEPT !.lowlinks[function] =
                      Min(@, st.orders[Head(callseq).callee_id])]
             ELSE st,
             d)

\* "if function not in visited"
find_cycles_is_root(st, function) == function \notin st.visited

\* the loop of find_cycles over the roots: each root starts with order 0 and
\* a fresh stack, orders and lowlinks; visited is shared
RECURSIVE find_cycles_roots(_, _)
find_cycles_roots(roots, st) ==
    IF roots = <<>> \/ st.fail # "" THEN st
    ELSE find_cycles_roots(Tail(roots),
             IF find_cycles_is_root(st, Head(roots))
             THEN TheOne({
                     IF r.fail # "" THEN r
                     ELSE [r EXCEPT !.log = Append(@, <<"return", Head(roots), Len(r.stack)>>)]
                   : r \in {_tarjan(Head(roots),
                                    [st EXCEPT !.order = 0, !.stack = <<>>,
                                               !.orders = EmptyMap, !.lowlinks = EmptyMap],
                                    1)} })
             ELSE st)

\* the second loop of find_cycles: the distinct cycles of the functions, in
\* the order of Profile.functions
cycle_always_new(acc, cycle) == TRUE

\* "function.cycle not in cycles"
cycle_is_new(acc, cycle) == ~InStack(acc, cycle)

RECURSIVE collect_cycles(_, _, _)
collect_cycles(keys, fcycle, acc) ==
    IF keys = <<>> THEN acc
    ELSE collect_cycles(Tail(keys), fcycle,
             IF fcycle[Head(keys)] # NoCycle /\ cycle_is_new(acc, fcycle[Head(keys)])
             THEN Append(acc, fcycle[Head(keys)])
             ELSE acc)

TarjanStart ==
    [order |-> 0, stack |-> <<>>, orders |-> EmptyMap, lowlinks |-> EmptyMap,
     visited |-> {}, cyc |-> cyc, fcycle |-> [f \in DOMAIN fn |-> fn[f].cycle],
     fail |-> "", depth |-> 0, log |-> <<>>]

find_cycles == find_cycles_roots(functions, TarjanStart)

FindCycles ==
    /\ pc = "validated"
    /\ failed = ""
    /\ \E st \in {find_cycles} :
           /\ fn' = [f \in DOMAIN fn |-> [fn[f] EXCEPT !.cycle = st.fcycle[f]]]
           /\ cyc' = st.cyc
           /\ cycles' = IF st.fail = "" THEN collect_cycles(functions, st.fcycle, <<>>)
                        ELSE cycles
           /\ failed' = st.fail
           /\ depth' = Max(depth, st.depth)
           /\ res' = st.log
    /\ pc' = "cycles"
    /\ UNCHANGED <<functions, pevents, arg>>

-----------------------------------------------------------------------------
(* Profile.call_ratios *)

\* every call of the profile in iteration order (functions, then each
\* function's calls), as <<caller id, position in caller.calls>>
RECURSIVE CallList(_)
CallList(keys) ==
    IF keys = <<>> THEN <<>>
    ELSE [i \in 1 .. Len(fn[Head(keys)].calls) |-> <<Head(keys), i>>]
             \o CallList(Tail(keys))

call_into_cycle_any(function, callee) ==
    fn[callee].cycle # NoCycle

\* "callee.cycle is not None and callee.cycle is not function.cycle"
call_into_cycle(function, callee) ==
    fn[callee].cycle # NoCycle /\ fn[callee].cycle # fn[function].cycle

\* Pass 1 for the call at position i of function: tot.function_totals and
\* tot.cycle_totals
call_ratios_add(function, call, event, tot) ==
    IF call.callee_id = function THEN tot
    ELSE IF call.callee_id \notin DOMAIN tot.function_totals
    THEN [tot EXCEPT !.fail = "KeyError"]
    ELSE IF ~Has(call.events, event) THEN tot
    ELSE IF ~call_into_cycle(function, call.callee_id)
    THEN [tot EXCEPT !.function_totals[call.callee_id] = RAdd(@, call.events[event])]
    ELSE IF fn[call.callee_id].cycle \notin DOMAIN tot.cycle_totals
    THEN [tot EXCEPT !.fail = "KeyError"]
    ELSE [tot EXCEPT !.function_totals[call.callee_id] = RAdd(@, call.events[event]),
                     !.cycle_totals[fn[call.callee_id].cycle] =
                         RAdd(@, call.events[event])]

RECURSIVE call_ratios_pass1(_, _, _)
call_ratios_pass1(cl, event, tot) ==
    IF cl = <<>> \/ tot.fail # "" THEN tot
    ELSE call_ratios_pass1(Tail(cl), event,
             call_ratios_add(Head(cl)[1], fn[Head(cl)[1]].calls[Head(cl)[2]],
                             event, tot))

\* "call.ratio = 0.0" of a call that has no data for the event
call_ratio_missing == Zero

\* Pass 2, for one call that is not a self-loop
call_ratio_value(function, call, event, tot) ==
    IF Has(call.events, event)
    THEN ratio(call.events[event],
               IF call_into_cycle(function, call.callee_id)
               THEN tot.cycle_totals[fn[call.callee_id].cycle]
               ELSE tot.function_totals[call.callee_id])
    ELSE call_ratio_missing

\* Pass 2: st.fn is the functions with the ratios set so far
call_ratios_set(function, i, event, tot, st) ==
    IF st.fn[function].calls[i].ratio # None
    THEN [st EXCEPT !.fail = "assert call.ratio is None"]
    ELSE IF st.fn[function].calls[i].callee_id = function THEN st
    ELSE [st EXCEPT !.fn[function].calls[i].ratio =
              call_ratio_value(function, st.fn[function].calls[i], event, tot)]

RECURSIVE call_ratios_pass2(_, _, _, _)
call_ratios_pass2(cl, event, tot, st) ==
    IF cl = <<>> \/ st.fail # "" THEN st
    ELSE call_ratios_pass2(Tail(cl), event, tot,
             call_ratios_set(Head(cl)[1], Head(cl)[2], event, tot, st))

call_ratios(event) ==
    TheOne({
        IF tot.fail # "" THEN [fn |-> fn, fail |-> tot.fail]
        ELSE call_ratios_pass2(CallList(functions), event, tot,
                               [fn |-> fn, fail |-> ""])
      : tot \in {call_ratios_pass1(CallList(functions), event,
                     [function_totals |-> [f \in SeqToSet(functions) |-> Zero],
                      cycle_totals |-> [c \in SeqToSet(cycles) |-> Zero],
                      fail |-> ""])} })

CallRatios ==
    /\ pc = "cycles"
    /\ failed = ""
    /\ \E st \in {call_ratios(CALLS)} :
           /\ fn' = st.fn
           /\ failed' = st.fail
    /\ pc' = "ratios"
    /\ UNCHANGED <<functions, cycles, cyc, pevents, depth, arg, res>>

-----------------------------------------------------------------------------
(* Profile.integrate and its recursions *)

\* st: the event stores the pass writes (st.fev of the functions, st.cev of
\* the calls, st.cyev of the cycles, st.pev of the profile), the value the
\* last activation returned (st.ret), st.fail and st.depth as in _tarjan.
\* st.log lists, in order, the totals that have been computed and stored:
\* <<"function", f>> by _integrate_function, <<"call", caller, i>> by
\* _integrate_call and <<"cycle", c>> by _integrate_cycle.
Enter(st, d) == [st EXCEPT !.depth = Max(@, d)]

callee_outside(cycle, callee) == fn[callee].cycle # cycle

RECURSIVE _integrate_function(_, _, _, _, _),
          integrate_function_calls(_, _, _, _, _, _, _),
          _integrate_call(_, _, _, _, _, _),
          _integrate_cycle(_, _, _, _, _),
          integrate_cycle_members(_, _, _, _, _, _, _),
          integrate_cycle_member_calls(_, _, _, _, _, _, _, _)

integrate_function_memo_off(function, st, outevent) == TRUE

\* "if outevent not in function"
integrate_function_todo(function, st, outevent) ==
    ~Has(st.fev[function], outevent)

_integrate_function(function, outevent, inevent, st, d) ==
    IF d > Fuel THEN Overflow(st, d)
    ELSE IF fn[function].cycle # NoCycle
    THEN _integrate_cycle(fn[function].cycle, outevent, inevent, Enter(st, d), d + 1)
    ELSE IF integrate_function_todo(function, st, outevent)
    THEN TheOne({
            IF s1.fail # "" THEN s1
            ELSE [s1 EXCEPT !.fev[function] = SetItem(@, outevent, s1.ret),
                            !.log = Append(@, <<"function", function>>)]
          : s1 \in {integrate_function_calls(function, 1, st.fev[function][inevent],
                                             outevent, inevent, Enter(st, d), d)} })
    ELSE [st EXCEPT !.ret = st.fev[function][outevent], !.depth = Max(@, d)]

\* the loop of _integrate_function over function.calls; returns total
integrate_function_calls(function, i, total, outevent, inevent, st, d) ==
    IF st.fail # "" THEN st
    ELSE IF i > Len(fn[function].calls) THEN [st EXCEPT !.ret = total]
    ELSE TheOne({
            IF s1.fail # "" THEN s1
            ELSE integrate_function_calls(function, i + 1, RAdd(total, s1.ret),
                                          outevent, inevent, s1, d)
          : s1 \in {IF fn[function].calls[i].callee_id # function
                    THEN _integrate_call(function, i, outevent, inevent, st, d + 1)
                    ELSE [st EXCEPT !.ret = Zero]} })

integrate_call_unscaled(call, total) == total

\* "subtotal = call.ratio * self._integrate_function(callee, ...)"
integrate_call_subtotal(call, total) == RMul(call.ratio, total)

\* the call is the i-th of function caller
_integrate_call(caller, i, outevent, inevent, st, d) ==
    IF d > Fuel THEN Overflow(st, d)
    ELSE IF Has(st.cev[caller][i], outevent)
    THEN [st EXCEPT !.fail = "assert outevent not in call"]
    ELSE IF fn[caller].calls[i].ratio = None
    THEN [st EXCEPT !.fail = "assert call.ratio is not None"]
    ELSE TheOne({
            IF s1.fail # "" THEN s1
            ELSE [s1 EXCEPT !.cev[caller][i] =
                                SetItem(@, outevent,
                                    integrate_call_subtotal(fn[caller].calls[i], s1.ret)),
                            !.ret = integrate_call_subtotal(fn[caller].calls[i], s1.ret),
                            !.log = Append(@, <<"call", caller, i>>)]
          : s1 \in {_integrate_function(fn[caller].calls[i].callee_id, outevent,
                                        inevent, Enter(st, d), d + 1)} })

\* "Compute the time propagated to callers of this cycle": callees, as the
\* keys in insertion order and the summed ratios
cycle_callees_add(function, call, cycle, acc) ==
    IF fn[function].cycle # cycle /\ fn[call.callee_id].cycle = cycle
    THEN IF call.callee_id \in DOMAIN acc.sum
         THEN [acc EXCEPT !.sum[call.callee_id] = RAdd(@, call.ratio)]
         ELSE [keys |-> Append(acc.keys, call.callee_id),
               sum |-> Put(acc.sum, call.callee_id, call.ratio)]
    ELSE acc

RECURSIVE cycle_callees(_, _, _)
cycle_callees(cl, cycle, acc) ==
    IF cl = <<>> THEN acc
    ELSE cycle_callees(Tail(cl), cycle,
             cycle_callees_add(Head(cl)[1], fn[Head(cl)[1]].calls[Head(cl)[2]],
                               cycle, acc))

\* _rank_cycle_function: rs.ranks
RECURSIVE _rank_cycle_function(_, _, _, _, _), rank_cycle_calls(_, _, _, _, _, _)

\* "if function not in ranks or ranks[function] > rank"
rank_improves(function, rank, ranks) ==
    function \notin DOMAIN ranks \/ ranks[function] > rank

_rank_cycle_function(cycle, function, rank, rs, d) ==
    IF d > Fuel THEN Overflow(rs, d)
    ELSE IF rank_improves(function, rank, rs.ranks)
    THEN rank_cycle_calls(cycle, function, 1, rank,
             [rs EXCEPT !.ranks = Put(@, function, rank), !.depth = Max(@, d)], d)
    ELSE Enter(rs, d)

rank_cycle_calls(cycle, function, i, rank, rs, d) ==
    IF rs.fail # "" \/ i > Len(fn[function].calls) THEN rs
    ELSE rank_cycle_calls(cycle, function, i + 1, rank,
             IF fn[function].calls[i].callee_id # function
                /\ fn[fn[function].calls[i].callee_id].cycle = cycle
             THEN _rank_cycle_function(cycle, fn[function].calls[i].callee_id,
                                       rank + 1, rs, d + 1)
             ELSE rs,
             d)

\* _call_ratios_cycle: cr.call_ratios and cr.visited
RECURSIVE _call_ratios_cycle(_, _, _, _, _), call_ratios_cycle_calls(_, _, _, _, _, _)
_call_ratios_cycle(cycle, function, ranks, cr, d) ==
    IF d > Fuel THEN Overflow(cr, d)
    ELSE IF function \notin cr.visited
    THEN call_ratios_cycle_calls(cycle, function, 1, ranks,
             [cr EXCEPT !.visited = @ \cup {function}, !.depth = Max(@, d)], d)
    ELSE Enter(cr, d)

\* "call_ratios[callee] = call_ratios.get(callee, 0.0) + call.ratio"
call_ratios_cycle_add(cr, call) ==
    [cr EXCEPT !.call_ratios =
        Put(@, call.callee_id,
            RAdd(IF call.callee_id \in DOMAIN @ THEN @[call.callee_id] ELSE Zero,
                 call.ratio))]

call_ratios_cycle_calls(cycle, function, i, ranks, cr, d) ==
    IF cr.fail # "" \/ i > Len(fn[function].calls) THEN cr
    ELSE call_ratios_cycle_calls(cycle, function, i + 1, ranks,
             IF fn[function].calls[i].callee_id # function
                /\ fn[fn[function].calls[i].callee_id].cycle = cycle
             THEN IF fn[function].calls[i].callee_id \notin DOMAIN ranks
                     \/ function \notin DOMAIN ranks
                  THEN [cr EXCEPT !.fail = "KeyError"]
                  ELSE IF ranks[fn[function].calls[i].callee_id] > ranks[function]
                  THEN _call_ratios_cycle(cycle, fn[function].calls[i].callee_id, ranks,
                           call_ratios_cycle_add(cr, fn[function].calls[i]), d + 1)
                  ELSE cr
             ELSE cr,
             d)

\* _integrate_cycle_function: st.partials besides the event stores
RECURSIVE _integrate_cycle_function(_, _, _, _, _, _, _, _, _),
          integrate_cycle_function_calls(_, _, _, _, _, _, _, _, _, _, _),
          integrate_cycle_function_call(_, _, _, _, _, _, _, _, _, _, _)

\* "try: x[outevent] += v except UndefinedEvent: x[outevent] = v"
AddItem(events, event, value) ==
    SetItem(events, event,
            IF Has(events, event) THEN RAdd(events[event], value) ELSE value)

_integrate_cycle_function(cycle, function, partial_ratio, ranks, cratios, outevent, inevent, st, d) ==
    IF d > Fuel THEN Overflow(st, d)
    ELSE IF function \notin DOMAIN st.partials
    THEN TheOne({
            IF s1.fail # "" THEN s1
            ELSE [s1 EXCEPT !.partials = Put(@, function, s1.ret),
                            !.fev[function] = AddItem(@, outevent, s1.ret)]
          : s1 \in {integrate_cycle_function_calls(cycle, function, 1,
                        RMul(partial_ratio, st.fev[function][inevent]),
                        partial_ratio, ranks, cratios, outevent, inevent,
                        Enter(st, d), d)} })
    ELSE [st EXCEPT !.ret = st.partials[function], !.depth = Max(@, d)]

\* the loop of _integrate_cycle_function over function.calls; returns partial
integrate_cycle_function_calls(cycle, function, i, partial, partial_ratio, ranks, cratios, outevent, inevent, st, d) ==
    IF st.fail # "" THEN st
    ELSE IF i > Len(fn[function].calls) THEN [st EXCEPT !.ret = partial]
    ELSE TheOne({
            IF s1.fail # "" THEN s1
            ELSE integrate_cycle_function_calls(cycle, function, i + 1, s1.ret,
                     partial_ratio, ranks, cratios, outevent, inevent, s1, d)
          : s1 \in {integrate_cycle_function_call(cycle, function, i, partial,
                        partial_ratio, ranks, cratios, outevent, inevent, st, d)} })

\* "call_ratio = ratio(call.ratio, call_ratios[callee])
\*  call_partial = call_ratio*callee_partial"
cycle_call_partial(call, cratios, callee_partial) ==
    RMul(ratio(call.ratio, cratios[call.callee_id]), callee_partial)

\* the body of that loop for the i-th call; returns the partial so far
integrate_cycle_function_call(cycle, function, i, partial, partial_ratio, ranks, cratios, outevent, inevent, st, d) ==
    IF fn[function].calls[i].callee_id = function
    THEN [st EXCEPT !.ret = partial]
    ELSE IF callee_outside(cycle, fn[function].calls[i].callee_id)
    THEN IF ~Has(st.cev[function][i], outevent)
         THEN [st EXCEPT !.fail = "assert outevent in call"]
         ELSE [st EXCEPT !.ret =
                  RAdd(partial, RMul(partial_ratio, st.cev[function][i][outevent]))]
    ELSE IF fn[function].calls[i].callee_id \notin DOMAIN ranks
            \/ function \notin DOMAIN ranks
    THEN [st EXCEPT !.fail = "KeyError"]
    ELSE IF ranks[fn[function].calls[i].callee_id] > ranks[function]
    THEN TheOne({
            IF s1.fail # "" THEN s1
            ELSE IF fn[function].calls[i].callee_id \notin DOMAIN cratios
            THEN [s1 EXCEPT !.fail = "KeyError"]
            ELSE [s1 EXCEPT !.cev[function][i] =
                                AddItem(@, outevent,
                                    cycle_call_partial(fn[function].calls[i],
                                                       cratios, s1.ret)),
                            !.ret = RAdd(partial,
                                    cycle_call_partial(fn[function].calls[i],
                                                       cratios, s1.ret))]
          : s1 \in {_integrate_cycle_function(cycle, fn[function].calls[i].callee_id,
                        partial_ratio, ranks, cratios, outevent, inevent, st,
                        d + 1)} })
    ELSE [st EXCEPT !.ret = partial]

\* max(partials.values())
MaxPartial(partials) ==
    CHOOSE v \in {partials[f] : f \in DOMAIN partials} :
        \A f \in DOMAIN partials : RLe(partials[f], v)

\* "abs(call_ratio*total - partial) <= 0.001*call_ratio*total"
WithinTolerance(call_ratio, total, partial) ==
    RLe(RAbs(RSub(RMul(call_ratio, total), partial)),
        RMul(<<1, 1000>>, RMul(call_ratio, total)))

\* the two assertions that end an iteration of the loop over callees.items()
integrate_cycle_asserts(call_ratio, total, st) ==
    IF st.fail # "" THEN st
    ELSE IF st.ret # MaxPartial(st.partials)
    THEN [st EXCEPT !.fail = "assert partial == max(partials.values())"]
    ELSE IF ~WithinTolerance(call_ratio, total, st.ret)
    THEN [st EXCEPT !.fail =
             "assert abs(call_ratio*total - partial) <= 0.001*call_ratio*total"]
    ELSE st

RanksStart(st) == [ranks |-> EmptyMap, fail |-> "", depth |-> st.depth]

CallRatiosStart(rs) ==
    [call_ratios |-> EmptyMap, visited |-> {}, fail |-> rs.fail, depth |-> rs.depth]

\* one iteration of the loop of _integrate_cycle over callees.items()
integrate_cycle_entry(cycle, callee, call_ratio, total, outevent, inevent, st, d) ==
    TheOne({
        TheOne({
            integrate_cycle_asserts(call_ratio, total,
                IF cr.fail # ""
                THEN [st EXCEPT !.fail = cr.fail, !.depth = cr.depth]
                ELSE _integrate_cycle_function(cycle, callee, call_ratio, rs.ranks,
                         cr.call_ratios, outevent, inevent,
                         [st EXCEPT !.partials = EmptyMap, !.depth = cr.depth],
                         d + 1))
          : cr \in {IF rs.fail # "" THEN CallRatiosStart(rs)
                    ELSE _call_ratios_cycle(cycle, callee, rs.ranks,
                                            CallRatiosStart(rs), d + 1)} })
      : rs \in {_rank_cycle_function(cycle, callee, 0, RanksStart(st), d + 1)} })

RECURSIVE integrate_cycle_entries(_, _, _, _, _, _, _, _)
integrate_cycle_entries(cycle, keys, callees, total, outevent, inevent, st, d) ==
    IF keys = <<>> \/ st.fail # "" THEN st
    ELSE integrate_cycle_entries(cycle, Tail(keys), callees, total, outevent, inevent,
             integrate_cycle_entry(cycle, Head(keys), callees[Head(keys)], total,
                                   outevent, inevent, st, d),
             d)

null_members_skipped(members, outevent, fev) == fev

\* "for member in cycle.functions: member[outevent] = outevent.null()"
null_members(members, outevent, fev) ==
    [f \in DOMAIN fev |->
        IF f \in members THEN SetItem(fev[f], outevent, null(outevent)) ELSE fev[f]]

\* _integrate_cycle from "Compute the time propagated to callers of this
\* cycle" on, total being the cycle's outevent
integrate_cycle_callers(cycle, total, outevent, inevent, st, d) ==
    TheOne({
        integrate_cycle_entries(cycle, callees.keys, callees.sum, total,
                                outevent, inevent, st, d)
      : callees \in {cycle_callees(CallList(functions), cycle,
                                   [keys |-> <<>>, sum |-> EmptyMap])} })

integrate_cycle_memo_off(cycle, st, outevent) == TRUE

\* "if outevent not in cycle"
integrate_cycle_todo(cycle, st, outevent) == ~Has(st.cyev[cycle], outevent)

_integrate_cycle(cycle, outevent, inevent, st, d) ==
    IF d > Fuel THEN Overflow(st, d)
    ELSE IF integrate_cycle_todo(cycle, st, outevent)
    THEN TheOne({
            IF s1.fail # "" THEN s1
            ELSE TheOne({
                    IF s4.fail # "" THEN s4
                    ELSE [s4 EXCEPT !.ret = s4.cyev[cycle][outevent]]
                  : s4 \in {integrate_cycle_callers(cycle, s1.ret, outevent, inevent,
                                [s1 EXCEPT !.cyev[cycle] = SetItem(@, outevent, s1.ret),
                                           !.fev = null_members(cyc[cycle].functions,
                                                                outevent, @),
                                           !.log = Append(@, <<"cycle", cycle>>)],
                                d)} })
          : s1 \in {integrate_cycle_members(cycle, SetToSeq(cyc[cycle].functions),
                        null(inevent), outevent, inevent, Enter(st, d), d)} })
    ELSE [st EXCEPT !.ret = st.cyev[cycle][outevent], !.depth = Max(@, d)]

\* the loop of _integrate_cycle over cycle.functions; returns total
integrate_cycle_members(cycle, members, total, outevent, inevent, st, d) ==
    IF st.fail # "" THEN st
    ELSE IF members = <<>> THEN [st EXCEPT !.ret = total]
    ELSE TheOne({
            IF s1.fail # "" THEN s1
            ELSE integrate_cycle_members(cycle, Tail(members), RAdd(total, s1.ret),
                                         outevent, inevent, s1, d)
          : s1 \in {integrate_cycle_member_calls(cycle, Head(members), 1,
                        st.fev[Head(members)][inevent], outevent, inevent, st, d)} })

\* the loop over member.calls; returns subtotal
integrate_cycle_member_calls(cycle, member, i, subtotal, outevent, inevent, st, d) ==
    IF st.fail # "" THEN st
    ELSE IF i > Len(fn[member].calls) THEN [st EXCEPT !.ret = subtotal]
    ELSE TheOne({
            IF s1.fail # "" THEN s1
            ELSE integrate_cycle_member_calls(cycle, member, i + 1,
                     RAdd(subtotal, s1.ret), outevent, inevent, s1, d)
          : s1 \in {IF callee_outside(cycle, fn[member].calls[i].callee_id)
                    THEN _integrate_call(member, i, outevent, inevent, st, d + 1)
                    ELSE [st EXCEPT !.ret = Zero]} })

\* the assertions on the calls of one function, from the i-th on
RECURSIVE integrate_sanity_calls(_, _, _)
integrate_sanity_calls(function, i, outevent) ==
    IF i > Len(fn[function].calls) THEN ""
    ELSE IF Has(fn[function].calls[i].events, outevent)
    THEN "assert outevent not in call"
    ELSE IF fn[function].calls[i].callee_id # function /\ fn[function].calls[i].ratio = None
    THEN "assert call.ratio is not None"
    ELSE integrate_sanity_calls(function, i + 1, outevent)

integrate_sanity_functions_only(keys, outevent, inevent) ==
    IF \E f \in SeqToSet(keys) : Has(fn[f].events, outevent)
    THEN "assert outevent not in function"
    ELSE IF \E f \in SeqToSet(keys) : ~Has(fn[f].events, inevent)
    THEN "assert inevent in function"
    ELSE ""

\* the assertions on the functions, one function after the other
RECURSIVE integrate_sanity_functions(_, _, _)
integrate_sanity_functions(keys, outevent, inevent) ==
    IF keys = <<>> THEN ""
    ELSE IF Has(fn[Head(keys)].events, outevent) THEN "assert outevent not in function"
    ELSE IF ~Has(fn[Head(keys)].events, inevent) THEN "assert inevent in function"
    ELSE IF integrate_sanity_calls(Head(keys), 1, outevent) # ""
    THEN integrate_sanity_calls(Head(keys), 1, outevent)
    ELSE integrate_sanity_functions(Tail(keys), outevent, inevent)

\* "Sanity checking": the first assertion of integrate that fails, or ""
integrate_sanity(outevent, inevent) ==
    IF Has(pevents, outevent) THEN "assert outevent not in self"
    ELSE integrate_sanity_functions(functions, outevent, inevent)

\* the sum of an event over Profile.functions
RECURSIVE SumEvent(_, _, _)
SumEvent(keys, event, total) ==
    IF keys = <<>> THEN total
    ELSE SumEvent(Tail(keys), event, RAdd(total, fn[Head(keys)].events[event]))

\* "Integrate along the edges"
RECURSIVE integrate_functions(_, _, _, _)
integrate_functions(keys, outevent, inevent, st) ==
    IF keys = <<>> \/ st.fail # "" THEN st
    ELSE integrate_functions(Tail(keys), outevent, inevent,
             _integrate_function(Head(keys), outevent, inevent, st, 1))

\* the event stores as integrate finds them
IntegrateEntry ==
    [fev |-> [f \in DOMAIN fn |-> fn[f].events],
     cev |-> [f \in DOMAIN fn |->
                [i \in 1 .. Len(fn[f].calls) |-> fn[f].calls[i].events]],
     cyev |-> [c \in DOMAIN cyc |-> cyc[c].events],
     pev |-> pevents,
     partials |-> EmptyMap, ret |-> Zero, fail |-> "", depth |-> 0, log |-> <<>>]

\* "Aggregate the input for each cycle": with at least one cycle, the sum
\* of inevent over Profile.functions is stored in self[inevent]
IntegrateStart(inevent) ==
    [IntegrateEntry EXCEPT !.pev =
        IF cycles # <<>>
        THEN SetItem(pevents, inevent, SumEvent(functions, inevent, null(inevent)))
        ELSE pevents]

integrate(outevent, inevent) ==
    IF integrate_sanity(outevent, inevent) # ""
    THEN [IntegrateEntry EXCEPT !.fail = integrate_sanity(outevent, inevent)]
    ELSE TheOne({
            IF s1.fail # "" THEN s1
            ELSE [s1 EXCEPT !.pev = SetItem(@, outevent,
                                        SumEvent(functions, inevent, null(inevent)))]
          : s1 \in {integrate_functions(functions, outevent, inevent,
                                        IntegrateStart(inevent))} })

\* integrate(TOTAL_TIME, TIME) called when the driver is at position at;
\* res is the list of the totals it has computed
IntegrateFrom(at) ==
    /\ pc = at
    /\ failed = ""
    /\ \E st \in {integrate(TOTAL_TIME, TIME)} :
           /\ fn' = [f \in DOMAIN fn |->
                      [fn[f] EXCEPT !.events = st.fev[f],
                                    !.calls = [i \in 1 .. Len(fn[f].calls) |->
                                        [fn[f].calls[i] EXCEPT !.events = st.cev[f][i]]]]]
           /\ cyc' = [c \in DOMAIN cyc |-> [cyc[c] EXCEPT !.events = st.cyev[c]]]
           /\ pevents' = st.pev
           /\ failed' = st.fail
           /\ depth' = Max(depth, st.depth)
           /\ res' = st.log
    /\ pc' = "integrated"
    /\ UNCHANGED <<functions, cycles, arg>>

Integrate == IntegrateFrom("ratios")

-----------------------------------------------------------------------------
(* Profile.ratio *)

\* the body of the loop over function.calls for the i-th call
Profile_ratio_call(function, i, outevent, inevent, st) ==
    IF Has(st.fn[function].calls[i].events, outevent)
    THEN [st EXCEPT !.fail = "assert outevent not in call"]
    ELSE IF Has(st.fn[function].calls[i].events, inevent)
    THEN [st EXCEPT !.fn[function].calls[i].events =
              SetItem(@, outevent, ratio(@[inevent], pevents[inevent]))]
    ELSE st

RECURSIVE Profile_ratio_calls(_, _, _, _, _)
Profile_ratio_calls(function, i, outevent, inevent, st) ==
    IF st.fail # "" \/ i > Len(st.fn[function].calls) THEN st
    ELSE Profile_ratio_calls(function, i + 1, outevent, inevent,
             Profile_ratio_call(function, i, outevent, inevent, st))

\* the body of the loop over Profile.functions
Profile_ratio_function(function, outevent, inevent, st) ==
    IF Has(st.fn[function].events, outevent)
    THEN [st EXCEPT !.fail = "assert outevent not in function"]
    ELSE IF ~Has(st.fn[function].events, inevent)
    THEN [st EXCEPT !.fail = "assert inevent in function"]
    ELSE Profile_ratio_calls(function, 1, outevent, inevent,
             [st EXCEPT !.fn[function].events =
                  SetItem(@, outevent, ratio(@[inevent], pevents[inevent]))])

RECURSIVE Profile_ratio_functions(_, _, _, _)
Profile_ratio_functions(keys, outevent, inevent, st) ==
    IF keys = <<>> \/ st.fail # "" THEN st
    ELSE Profile_ratio_functions(Tail(keys), outevent, inevent,
             Profile_ratio_function(Head(keys), outevent, inevent, st))

Profile_ratio(outevent, inevent) ==
    IF Has(pevents, outevent)
    THEN [fn |-> fn, pev |-> pevents, fail |-> "assert outevent not in self"]
    ELSE IF ~Has(pevents, inevent)
    THEN [fn |-> fn, pev |-> pevents, fail |-> "assert inevent in self"]
    ELSE TheOne({
            IF s1.fail # "" THEN s1
            ELSE [s1 EXCEPT !.pev = SetItem(@, outevent, One)]
          : s1 \in {Profile_ratio_functions(functions, outevent, inevent,
                        [fn |-> fn, pev |-> pevents, fail |-> ""])} })

Ratio ==
    /\ pc = "integrated"
    /\ failed = ""
    /\ \E st \in {Profile_ratio(TOTAL_TIME_RATIO, TOTAL_TIME)} :
           /\ fn' = st.fn
           /\ pevents' = st.pev
           /\ failed' = st.fail
    /\ pc' = "ratio"
    /\ UNCHANGED <<functions, cycles, cyc, depth, arg, res>>

Next ==
    \/ Validate
    \/ FindCycles
    \/ CallRatios
    \/ Integrate
    \/ Ratio

Spec == Init /\ [][Next]_vars

\* the same driver on the profiles of InitNumeric
SpecNumeric == InitNumeric /\ [][Next]_vars

-----------------------------------------------------------------------------
(* Cycle.add_function on its own: NumCycles Cycle objects and the functions, *)
(* none of them in a cycle yet; any cycle may be given any function.         *)

InitCycle ==
    /\ pc = "cycles_created"
    /\ functions = Ascending
    /\ fn = [f \in Ids |-> NewFunction(NoEvents, <<>>)]
    /\ cycles = <<>>
    /\ cyc = [c \in 1 .. NumCycles |-> NewCycle]
    /\ pevents = NoEvents
    /\ failed = ""
    /\ depth = 0
    /\ arg = <<>>
    /\ res = <<>>

\* self.add_function(function); arg keeps the call's arguments and what
\* function.cycle and its members were when the call was made
AddFunction(self, function) ==
    /\ pc \in {"cycles_created", "add_function"}
    /\ failed = ""
    /\ \E st \in {add_function([cyc |-> cyc,
                                fcycle |-> [f \in DOMAIN fn |-> fn[f].cycle],
                                fail |-> ""], self, function)} :
           /\ fn' = [f \in DOMAIN fn |-> [fn[f] EXCEPT !.cycle = st.fcycle[f]]]
           /\ cyc' = st.cyc
           /\ failed' = st.fail
    /\ arg' = [self |-> self, function |-> function, cycle |-> fn[function].cycle,
               members |-> IF fn[function].cycle = NoCycle THEN {}
                           ELSE cyc[fn[function].cycle].functions]
    /\ pc' = "add_function"
    /\ UNCHANGED <<functions, cycles, pevents, depth, res>>

NextCycle == \E self \in DOMAIN cyc, function \in Ids : AddFunction(self, function)

SpecCycle == InitCycle /\ [][NextCycle]_vars

-----------------------------------------------------------------------------
(* ratio() on its own: what it returns, what it writes to stderr and what   *)
(* it raises, for operands on both sides of the tolerance.                  *)

MaxOperand == 3

\* the denominator at which one unit of the numerator is half the tolerance
Fine == 2 * tol[2]

\* tol < x for a rational x (the numerator of tol is 1), computed without
\* leaving the checker's 32-bit integers
MoreThanTol(x) == x[1] > x[2] \div tol[2]

RatioNumerators ==
    {Num(k) : k \in (0 - MaxOperand) .. MaxOperand}
        \cup {Num(Fine + k) : k \in (0 - MaxOperand) .. MaxOperand}

RatioDenominators == {Zero, One, Num(0 - 1), Num(MaxOperand), Num(Fine)}

ratio_stderr_exact(numerator, denominator) ==
    IF denominator[1] = 0 THEN ""
    ELSE LET r == RDiv(numerator, denominator)
         IN  IF RLt(r, Zero) THEN "warning: negative ratio"
             ELSE IF RLt(One, r) THEN "warning: ratio greater than one"
             ELSE ""

\* what ratio() writes to sys.stderr: a warning beyond the tolerance only
ratio_stderr(numerator, denominator) ==
    IF denominator[1] = 0 THEN ""
    ELSE LET r == RDiv(numerator, denominator)
         IN  IF RLt(r, Zero)
             THEN IF MoreThanTol(RSub(Zero, r)) THEN "warning: negative ratio" ELSE ""
             ELSE IF RLt(One, r)
                  THEN IF MoreThanTol(RSub(r, One))
                       THEN "warning: ratio greater than one" ELSE ""
                  ELSE ""

\* one call of ratio(): the ZeroDivisionError of the division is caught
\* inside, and nothing else in the body raises on numbers
ratio_call(numerator, denominator) ==
    [ret |-> ratio(numerator, denominator),
     stderr |-> ratio_stderr(numerator, denominator),
     raised |-> ""]

InitRatio ==
    /\ pc = "ratio_args"
    /\ functions = <<>>
    /\ fn = EmptyMap
    /\ cycles = <<>>
    /\ cyc = EmptyMap
    /\ pevents = NoEvents
    /\ failed = ""
    /\ depth = 0
    /\ arg \in RatioNumerators \X RatioDenominators
    /\ res = <<>>

RatioCall ==
    /\ pc = "ratio_args"
    /\ res' = ratio_call(arg[1], arg[2])
    /\ failed' = res'.raised
    /\ pc' = "ratio_returned"
    /\ UNCHANGED <<functions, fn, cycles, cyc, pevents, depth, arg>>

NextRatio == RatioCall

SpecRatio == InitRatio /\ [][NextRatio]_vars

-----------------------------------------------------------------------------
(* Profile.validate on profiles with calls to ids that are no key of        *)
(* Profile.functions, run twice.                                            *)

NumKnown == 2
NumUnknown == 2

KnownIds == 0 .. (NumKnown - 1)
CalleeIds == 0 .. (NumKnown + NumUnknown - 1)

\* the calls of one function, added in ascending or in descending order of
\* the callee id
CallsTo(callees, ascending) ==
    LET s == SetToSeq(callees)
    IN  [i \in 1 .. Len(s) |->
            NewCall(s[IF ascending THEN i ELSE Len(s) + 1 - i], NoEvents)]

InitValidate ==
    \E callees \in [KnownIds -> SUBSET CalleeIds], ascending \in BOOLEAN :
        /\ pc = "ingested"
        /\ functions = SetToSeq(KnownIds)
        /\ fn = [f \in KnownIds |-> NewFunction(NoEvents, CallsTo(callees[f], ascending))]
        /\ cycles = <<>>
        /\ cyc = EmptyMap
        /\ pevents = NoEvents
        /\ failed = ""
        /\ depth = 0
        /\ arg = <<>>
        /\ res = <<>>

\* a second validate() on the validated profile
Revalidate ==
    /\ pc = "validated"
    /\ failed = ""
    /\ fn' = [f \in DOMAIN fn |-> validate(fn[f])]
    /\ res' = validate_stderr(functions)
    /\ pc' = "revalidated"
    /\ UNCHANGED <<functions, cycles, cyc, pevents, failed, depth, arg>>

NextValidate == Validate \/ Revalidate

SpecValidate == InitValidate /\ [][NextValidate]_vars

-----------------------------------------------------------------------------
(* Profile.prune on a validated profile whose functions and calls may or    *)
(* may not carry TOTAL_TIME_RATIO.                                          *)

MaxShare == 2

\* the ratios 0, 1/MaxShare, ..., 1
Shares == {Rat(k, MaxShare) : k \in 0 .. MaxShare}

PruneIds == {0, 1, 2}
PruneCalls == [f \in PruneIds |-> IF f = 0 THEN <<1, 2>> ELSE IF f = 1 THEN <<0>> ELSE <<>>]
PruneEdges == {<<0, 1>>, <<0, 2>>, <<1, 0>>}

\* min(a, b) of Python: b when b < a, else a
RMin(a, b) == IF RLt(b, a) THEN b ELSE a

InitPrune ==
    \E fratio \in [PruneIds -> {None} \cup Shares], cratio \in [PruneEdges -> {None} \cup Shares] :
        /\ pc = "prune_args"
        /\ functions = SetToSeq(PruneIds)
        /\ fn = [f \in PruneIds |->
                   NewFunction(SetItem(NoEvents, TOTAL_TIME_RATIO, fratio[f]),
                               [i \in 1 .. Len(PruneCalls[f]) |->
                                   NewCall(PruneCalls[f][i],
                                           SetItem(NoEvents, TOTAL_TIME_RATIO,
                                                   cratio[<<f, PruneCalls[f][i]>>]))])]
        /\ cycles = <<>>
        /\ cyc = EmptyMap
        /\ pevents = NoEvents
        /\ failed = ""
        /\ depth = 0
        /\ arg = <<>>
        /\ res = <<>>

\* function.weight = function[TOTAL_TIME_RATIO], left alone on UndefinedEvent
prune_function_weight(function) ==
    IF Has(function.events, TOTAL_TIME_RATIO)
    THEN function.events[TOTAL_TIME_RATIO]
    ELSE function.weight

\* call.weight: the call's own ratio, else the smaller of the caller's and
\* the callee's, left alone when one of them is undefined
prune_call_weight(function, call, callee) ==
    IF Has(call.events, TOTAL_TIME_RATIO)
    THEN call.events[TOTAL_TIME_RATIO]
    ELSE IF Has(function.events, TOTAL_TIME_RATIO) /\ Has(callee.events, TOTAL_TIME_RATIO)
         THEN RMin(function.events[TOTAL_TIME_RATIO], callee.events[TOTAL_TIME_RATIO])
         ELSE call.weight

\* the position of the first call of the function that does not resolve,
\* where self.functions[call.callee_id] raises KeyError; 0 if all resolve
prune_unresolved(function, keys) ==
    IF \A i \in 1 .. Len(function.calls) : function.calls[i].callee_id \in keys THEN 0
    ELSE CHOOSE i \in 1 .. Len(function.calls) :
             /\ function.calls[i].callee_id \notin keys
             /\ \A j \in 1 .. (i - 1) : function.calls[j].callee_id \in keys

\* compute the prune ratios of one function and of its calls, up to the
\* first call that does not resolve
prune_weights(function, f, keys) ==
    [function EXCEPT
        !.weight = prune_function_weight(function),
        !.calls = [i \in 1 .. Len(function.calls) |->
                      IF \A j \in 1 .. i : function.calls[j].callee_id \in keys
                      THEN [function.calls[i] EXCEPT !.weight =
                               prune_call_weight(function, function.calls[i],
                                                 f[function.calls[i].callee_id])]
                      ELSE function.calls[i]]]

\* the position in self.functions of the first function with a call that
\* does not resolve; 0 if there is none
prune_stops(order, f) ==
    IF \A p \in 1 .. Len(order) : prune_unresolved(f[order[p]], SeqToSet(order)) = 0 THEN 0
    ELSE CHOOSE p \in 1 .. Len(order) :
             /\ prune_unresolved(f[order[p]], SeqToSet(order)) # 0
             /\ \A q \in 1 .. (p - 1) : prune_unresolved(f[order[q]], SeqToSet(order)) = 0

\* the first loop of prune: the weights, function after function
prune_all_weights(order, f, stop) ==
    [id \in DOMAIN f |->
        IF \E p \in 1 .. Len(order) : order[p] = id /\ (stop = 0 \/ p <= stop)
        THEN prune_weights(f[id], f, SeqToSet(order))
        ELSE f[id]]

prune_node_goes_at(weight, node_thres) ==
    weight # None /\ RLe(weight, node_thres)

\* function.weight is not None and function.weight < node_thres
prune_node_goes(weight, node_thres) ==
    weight # None /\ RLt(weight, node_thres)

RECURSIVE prune_nodes_skipping(_, _, _)
prune_nodes_skipping(keys, f, node_thres) ==
    IF keys = <<>> THEN <<>>
    ELSE IF prune_node_goes(f[Head(keys)].weight, node_thres)
         THEN IF Len(keys) = 1 THEN <<>>
              ELSE <<keys[2]>> \o prune_nodes_skipping(Tail(Tail(keys)), f, node_thres)
         ELSE <<Head(keys)>> \o prune_nodes_skipping(Tail(keys), f, node_thres)

\* prune the nodes: the keys of self.functions that stay
RECURSIVE prune_nodes(_, _, _)
prune_nodes(keys, f, node_thres) ==
    IF keys = <<>> THEN <<>>
    ELSE (IF prune_node_goes(f[Head(keys)].weight, node_thres) THEN <<>> ELSE <<Head(keys)>>)
         \o prune_nodes(Tail(keys), f, node_thres)

prune_edge_goes_by_weight(call, keys, edge_thres) ==
    call.weight # None /\ RLt(call.weight, edge_thres)

\* callee_id not in self.functions or call.weight is not None and
\* call.weight < edge_thres
prune_edge_goes(call, keys, edge_thres) ==
    \/ call.callee_id \notin keys
    \/ call.weight # None /\ RLt(call.weight, edge_thres)

\* prune the edges of one function
RECURSIVE prune_edges(_, _, _)
prune_edges(callseq, keys, edge_thres) ==
    IF callseq = <<>> THEN <<>>
    ELSE (IF prune_edge_goes(Head(callseq), keys, edge_thres) THEN <<>> ELSE <<Head(callseq)>>)
         \o prune_edges(Tail(callseq), keys, edge_thres)

\* Profile.prune: the weights, then the nodes, then the edges of the
\* functions that are left; a KeyError in the first loop ends the pass
prune(node_thres, edge_thres) ==
    TheOne({
        IF prune_stops(functions, fn) # 0
        THEN [functions |-> functions, fn |-> w, fail |-> "KeyError"]
        ELSE TheOne({
             [functions |-> kept,
              fn |-> [id \in DOMAIN w |->
                        IF id \in SeqToSet(kept)
                        THEN [w[id] EXCEPT !.calls = prune_edges(@, SeqToSet(kept), edge_thres)]
                        ELSE w[id]],
              fail |-> ""] :
             kept \in {prune_nodes(functions, w, node_thres)}}) :
        w \in {prune_all_weights(functions, fn, prune_stops(functions, fn))}})

Prune(node_thres, edge_thres) ==
    /\ pc = "prune_args"
    /\ failed = ""
    /\ \E st \in {prune(node_thres, edge_thres)} :
           /\ functions' = st.functions
           /\ fn' = st.fn
           /\ failed' = st.fail
    /\ arg' = [node_thres |-> node_thres, edge_thres |-> edge_thres]
    /\ pc' = "pruned"
    /\ UNCHANGED <<cycles, cyc, pevents, depth, res>>

NextPrune == \E node_thres \in Shares, edge_thres \in Shares : Prune(node_thres, edge_thres)

SpecPrune == InitPrune /\ [][NextPrune]_vars

-----------------------------------------------------------------------------
(* One Object (the event store of the profile) under any sequence of        *)
(* obj[event] = value and obj[event]; arg keeps, for every event, the value *)
(* of the last assignment.                                                  *)

StoreEvents == {CALLS, TIME, TOTAL_TIME}
StoreValues == {None} \cup {Num(v) : v \in 0 .. MaxCount}

InitObject ==
    /\ pc = "object_created"
    /\ functions = <<>>
    /\ fn = EmptyMap
    /\ cycles = <<>>
    /\ cyc = EmptyMap
    /\ pevents = NoEvents
    /\ failed = ""
    /\ depth = 0
    /\ arg = [e \in StoreEvents |-> None]
    /\ res = <<>>

\* obj[event] = value
ObjectSet(event, value) ==
    /\ pevents' = SetItem(pevents, event, value)
    /\ arg' = [arg EXCEPT ![event] = value]
    /\ res' = [op |-> "set", event |-> event, ret |-> None, raised |-> ""]
    /\ pc' = "object_used"
    /\ UNCHANGED <<functions, fn, cycles, cyc, failed, depth>>

\* obj[event], the caller catching what it raises
ObjectGet(event) ==
    /\ res' = [op |-> "get", event |-> event,
               ret |-> GetItem(pevents, event).ret,
               raised |-> GetItem(pevents, event).raised]
    /\ pc' = "object_used"
    /\ UNCHANGED <<functions, fn, cycles, cyc, pevents, failed, depth, arg>>

NextObject ==
    \/ \E event \in StoreEvents, value \in StoreValues : ObjectSet(event, value)
    \/ \E event \in StoreEvents : ObjectGet(event)

SpecObject == InitObject /\ [][NextObject]_vars

-----------------------------------------------------------------------------
(* Function.add_call on one Function (function 0), any sequence of calls;   *)
(* arg keeps, for every callee id, the Call added last.                     *)

AddCallIds == 0 .. NumKnown
AddCallArgs == {NewCall(id, SetItem(NoEvents, CALLS, Num(c))) : id \in AddCallIds, c \in 0 .. MaxCount}

\* callee_id in self.calls
HasCall(callseq, callee_id) == \E i \in 1 .. Len(callseq) : callseq[i].callee_id = callee_id

add_call_keep_first(callseq, call) ==
    IF HasCall(callseq, call.callee_id) THEN callseq ELSE Append(callseq, call)

\* self.calls[call.callee_id] = call: a present key keeps its place in the
\* dict, a new one goes to the end
add_call(callseq, call) ==
    IF HasCall(callseq, call.callee_id)
    THEN [i \in 1 .. Len(callseq) |->
            IF callseq[i].callee_id = call.callee_id THEN call ELSE callseq[i]]
    ELSE Append(callseq, call)

\* what add_call writes to sys.stderr
add_call_stderr(callseq, call) ==
    IF HasCall(callseq, call.callee_id) THEN "warning: overwriting call" ELSE ""

InitAddCall ==
    /\ pc = "function_created"
    /\ functions = <<0>>
    /\ fn = [f \in {0} |-> NewFunction(NoEvents, <<>>)]
    /\ cycles = <<>>
    /\ cyc = EmptyMap
    /\ pevents = NoEvents
    /\ failed = ""
    /\ depth = 0
    /\ arg = [id \in AddCallIds |-> None]
    /\ res = <<>>

\* function.add_call(call)
AddCall(call) ==
    /\ fn' = [fn EXCEPT ![0].calls = add_call(@, call)]
    /\ arg' = [arg EXCEPT ![call.callee_id] = call]
    /\ res' = [stderr |-> add_call_stderr(fn[0].calls, call), raised |-> ""]
    /\ pc' = "call_added"
    /\ UNCHANGED <<functions, cycles, cyc, pevents, failed, depth>>

NextAddCall == \E call \in AddCallArgs : AddCall(call)

SpecAddCall == InitAddCall /\ [][NextAddCall]_vars

-----------------------------------------------------------------------------
(* integrate called on profiles that do not meet its preconditions: a       *)
(* caller assigns or deletes one event between call_ratios and integrate,   *)
(* or calls integrate without call_ratios.                                  *)

SanityGraphs ==
    {{<<0, 1>>, <<1, 2>>, <<2, 1>>},
     {<<0, 1>>, <<1, 2>>, <<2, 2>>},
     {<<0, 4>>, <<2, 4>>, <<4, 3>>, <<3, 4>>},
     {<<2, 2>>}}

SanityCallChoices ==
    {ch \in CallChoices : \E g \in SanityGraphs : \A i \in Candidates :
        ch[i] = (IF CandidateCalls[i] \in g THEN One ELSE None)}

InitSanity ==
    \E ch \in SanityCallChoices, tm \in TimeProfiles : Ingested(Ascending, ch, tm)

\* profile[TOTAL_TIME] = 1.0
AssignProfile ==
    /\ pc = "ratios" /\ arg = <<>>
    /\ pevents' = SetItem(pevents, TOTAL_TIME, One)
    /\ arg' = [target |-> "profile"]
    /\ UNCHANGED <<pc, functions, fn, cycles, cyc, failed, depth, res>>

\* function[event] = value
AssignFunction(function, event, value) ==
    /\ pc = "ratios" /\ arg = <<>>
    /\ fn' = [fn EXCEPT ![function].events = SetItem(@, event, value)]
    /\ arg' = [target |-> "function", function |-> function, event |-> event]
    /\ UNCHANGED <<pc, functions, cycles, cyc, pevents, failed, depth, res>>

\* call[TOTAL_TIME] = 1.0 for the i-th call of the function
AssignCall(function, i) ==
    /\ pc = "ratios" /\ arg = <<>>
    /\ i \in 1 .. Len(fn[function].calls)
    /\ fn' = [fn EXCEPT ![function].calls[i].events = SetItem(@, TOTAL_TIME, One)]
    /\ arg' = [target |-> "call", function |-> function, call |-> i]
    /\ UNCHANGED <<pc, functions, cycles, cyc, pevents, failed, depth, res>>

\* cycle[TOTAL_TIME] = 1.0 for a cycle of Profile.cycles
AssignCycle(cycle) ==
    /\ pc = "ratios" /\ arg = <<>>
    /\ cycle \in SeqToSet(cycles)
    /\ cyc' = [cyc EXCEPT ![cycle].events = SetItem(@, TOTAL_TIME, One)]
    /\ arg' = [target |-> "cycle", cycle |-> cycle]
    /\ UNCHANGED <<pc, functions, fn, cycles, pevents, failed, depth, res>>

\* integrate(TOTAL_TIME, TIME) right after find_cycles
IntegrateUnrated == IntegrateFrom("cycles")

NextSanity ==
    \/ Validate
    \/ FindCycles
    \/ CallRatios
    \/ AssignProfile
    \/ \E function \in Ids, ev \in {<<TOTAL_TIME, One>>, <<TIME, None>>} :
           AssignFunction(function, ev[1], ev[2])
    \/ \E function \in Ids, i \in 1 .. Len(CandidateCalls) : AssignCall(function, i)
    \/ \E cycle \in DOMAIN cyc : AssignCycle(cycle)
    \/ Integrate
    \/ IntegrateUnrated

SpecSanity == InitSanity /\ [][NextSanity]_vars

-----------------------------------------------------------------------------
(* The passes on profiles whose ingestion has also set TIME on the profile, *)
(* to the sum of the functions' TIME or to more than that.                  *)

RECURSIVE SumTimes(_, _)
SumTimes(tm, S) ==
    IF S = {} THEN 0
    ELSE TheOne({tm[f] + SumTimes(tm, S \ {f}) : f \in {CHOOSE g \in S : TRUE}})

InitFrame ==
    \E order \in {Ascending, Descending}, ch \in SanityCallChoices, tm \in TimeProfiles,
       extra \in 0 .. MaxCount :
        /\ pc = "ingested"
        /\ functions = order
        /\ fn = [f \in Ids |->
                   NewFunction(SetItem(NoEvents, TIME, Num(tm[f])), CallsOf(f, ch, 1))]
        /\ cycles = <<>>
        /\ cyc = EmptyMap
        /\ pevents = SetItem(NoEvents, TIME, Num(SumTimes(tm, Ids) + extra))
        /\ failed = ""
        /\ depth = 0
        /\ arg = <<>>
        /\ res = <<>>

SpecFrame == InitFrame /\ [][Next]_vars

-----------------------------------------------------------------------------
(* Quantities the properties below are stated with, defined from the call   *)
(* graph and the stored values alone, not from the passes.                  *)

RECURSIVE RSum(_)
RSum(s) == IF s = <<>> THEN Zero ELSE RAdd(Head(s), RSum(Tail(s)))

InUnitInterval(r) == RLe(Zero, r) /\ RLe(r, One)

CallsFrom(f) == 1 .. Len(fn[f].calls)
Callees(f) == {fn[f].calls[i].callee_id : i \in CallsFrom(f)}
SelfLoopCall(f, i) == fn[f].calls[i].callee_id = f

\* the functions reached from those of S along calls, S included
RECURSIVE ReachableFrom(_)
ReachableFrom(S) ==
    IF UNION {Callees(f) : f \in S} \subseteq S THEN S
    ELSE ReachableFrom(S \cup UNION {Callees(f) : f \in S})

\* the strongly connected component of f
Component(f) == {g \in ReachableFrom({f}) : f \in ReachableFrom({g})}

\* what a call to callee is charged from: the callee's total, or its cycle's
Charged(callee) ==
    IF fn[callee].cycle = NoCycle THEN fn[callee].events[TOTAL_TIME]
    ELSE cyc[fn[callee].cycle].events[TOTAL_TIME]

\* a member's own time plus the totals of its calls that leave the cycle
MemberSubtotal(m, cycle) ==
    RAdd(fn[m].events[TIME],
         RSum([i \in CallsFrom(m) |->
                 IF fn[fn[m].calls[i].callee_id].cycle # cycle
                 THEN fn[m].calls[i].events[TOTAL_TIME]
                 ELSE Zero]))

\* the sum of CALLS over the calls (f, i) of the profile that P selects
SumCalls(P(_, _)) ==
    RSum([k \in 1 .. Len(functions) |->
            RSum([i \in CallsFrom(functions[k]) |->
                    IF P(functions[k], i) /\ Has(fn[functions[k]].calls[i].events, CALLS)
                    THEN fn[functions[k]].calls[i].events[CALLS]
                    ELSE Zero])])

\* the sum of CALLS over all non-self-loop calls to callee
FunctionTotal(callee) ==
    LET P(f, i) == fn[f].calls[i].callee_id = callee /\ f # callee
    IN  SumCalls(P)

\* the sum of CALLS over the calls into members of cycle from callers not in it
CycleTotal(cycle) ==
    LET P(f, i) == fn[fn[f].calls[i].callee_id].cycle = cycle /\ fn[f].cycle # cycle
    IN  SumCalls(P)

\* the denominator of the i-th call of f
TotalFor(f, i) ==
    IF fn[fn[f].calls[i].callee_id].cycle # NoCycle
       /\ fn[fn[f].calls[i].callee_id].cycle # fn[f].cycle
    THEN CycleTotal(fn[fn[f].calls[i].callee_id].cycle)
    ELSE FunctionTotal(fn[f].calls[i].callee_id)

-----------------------------------------------------------------------------
(* Properties *)

\* C1: after validate, find_cycles, call_ratios and integrate, every function
\* F outside any cycle has F[TOTAL_TIME] = F[TIME] + the sum over F's calls
\* to other functions of call.ratio * (the callee's TOTAL_TIME, or its
\* cycle's when the callee is in one); a callee shared by several callers is
\* integrated once, so on a graph without cycles no assertion fails.
C1_AcyclicTotal ==
    pc = "integrated" =>
        /\ cycles = <<>> => failed = ""
        /\ failed = "" =>
             \A f \in Ids :
                fn[f].cycle = NoCycle =>
                    fn[f].events[TOTAL_TIME] =
                        RAdd(fn[f].events[TIME],
                             RSum([i \in CallsFrom(f) |->
                                     IF SelfLoopCall(f, i) THEN Zero
                                     ELSE RMul(fn[f].calls[i].ratio,
                                               Charged(fn[f].calls[i].callee_id))]))

\* the chain 1 -> 2 -> 4 with self times 1, 2, 3 and ratios 1.0 has the
\* totals 6, 5, 3
C1_Chain ==
    /\ pc = "integrated"
    /\ failed = ""
    /\ Len(fn[1].calls) = 1 /\ fn[1].calls[1].callee_id = 2
    /\ Len(fn[2].calls) = 1 /\ fn[2].calls[1].callee_id = 4
    /\ fn[4].calls = <<>>
    /\ fn[1].calls[1].ratio = One /\ fn[2].calls[1].ratio = One
    /\ fn[1].events[TIME] = Num(1) /\ fn[2].events[TIME] = Num(2)
    /\ fn[4].events[TIME] = Num(3)
    /\ fn[1].events[TOTAL_TIME] = Num(6) /\ fn[2].events[TOTAL_TIME] = Num(5)
    /\ fn[4].events[TOTAL_TIME] = Num(3)

\* C2: after integrate, every cycle C of Profile.cycles has C[TOTAL_TIME] =
\* the sum over its members m of m[TIME] + the TOTAL_TIME of m's calls to
\* functions outside C, and every call from outside C into a member of C has
\* call[TOTAL_TIME] = call.ratio * C[TOTAL_TIME].
C2_CycleTotal ==
    (pc = "integrated" /\ failed = "") =>
        \A k \in 1 .. Len(cycles) :
            /\ cyc[cycles[k]].events[TOTAL_TIME] =
                   RSum([j \in 1 .. Cardinality(cyc[cycles[k]].functions) |->
                           MemberSubtotal(SetToSeq(cyc[cycles[k]].functions)[j],
                                          cycles[k])])
            /\ \A f \in Ids : \A i \in CallsFrom(f) :
                   (fn[f].cycle # cycles[k] /\ fn[fn[f].calls[i].callee_id].cycle = cycles[k])
                       => fn[f].calls[i].events[TOTAL_TIME] =
                              RMul(fn[f].calls[i].ratio, cyc[cycles[k]].events[TOTAL_TIME])

\* the cycle 1 -> 2 -> 4 -> 1 with self time 1 each, called by 0 alone with
\* ratio 1.0: the cycle's total is 3 and so is the call's
C2_CycleOfThree ==
    /\ pc = "integrated"
    /\ failed = ""
    /\ Len(cycles) = 1
    /\ cyc[cycles[1]].functions = {1, 2, 4}
    /\ \A f \in {1, 2, 4} : fn[f].events[TIME] = Num(1) /\ Len(fn[f].calls) = 1
    /\ Len(fn[0].calls) = 1 /\ fn[0].calls[1].callee_id = 1
    /\ fn[3].calls = <<>>
    /\ fn[0].calls[1].ratio = One
    /\ cyc[cycles[1]].events[TOTAL_TIME] = Num(3)
    /\ fn[0].calls[1].events[TOTAL_TIME] = Num(3)

\* C3: on a validated graph with non-negative self times and call counts the
\* two assertions that close the redistribution through a cycle never fail:
\* the entry member's partial is r * C[TOTAL_TIME] within 1e-3.
C3_RedistributionAsserted ==
    failed \notin {"assert partial == max(partials.values())",
                   "assert abs(call_ratio*total - partial) <= 0.001*call_ratio*total"}

\* C4: find_cycles, call_ratios and integrate terminate on every graph: no
\* recursion of the passes goes deeper than Fuel activations, a depth that
\* grows with the number of functions only, so none recurses without end.
C4_Terminates ==
    failed # "RecursionError" /\ depth <= Fuel

\* a run to the end of integrate over the overlapping loops, the two-function
\* loops and the self-loop at once
C4_AllLoopsIntegrated ==
    /\ pc = "integrated"
    /\ failed = ""
    /\ \A c \in Candidates :
           CandidateCalls[c][2] \in Callees(CandidateCalls[c][1])
    /\ depth > NumFunctions

\* C5: after find_cycles, f.cycle is set exactly when the strongly connected
\* component of f has more than one function, and then f.cycle.functions is
\* that component; a function whose only loop is a call to itself has no
\* cycle.
C5_CycleIffComponent ==
    pc = "cycles" =>
        \A f \in Ids :
            /\ fn[f].cycle # NoCycle <=> Cardinality(Component(f)) > 1
            /\ fn[f].cycle # NoCycle => cyc[fn[f].cycle].functions = Component(f)

\* function 2 calls itself and is in no loop with others, while 1, 3 and 4
\* form a cycle
C5_SelfLoopBesideCycle ==
    /\ pc = "cycles"
    /\ 2 \in Callees(2)
    /\ fn[2].cycle = NoCycle
    /\ fn[1].cycle # NoCycle
    /\ cyc[fn[1].cycle].functions = {1, 3, 4}

\* C6: after find_cycles the cycles of Profile.cycles are distinct, pairwise
\* disjoint and have more than one member each, and a function is a member
\* of one of them exactly when its cycle field is that cycle, for either
\* insertion order of the functions.
C6_CyclesPartition ==
    pc = "cycles" =>
        /\ \A j, k \in 1 .. Len(cycles) :
               j # k => /\ cycles[j] # cycles[k]
                        /\ cyc[cycles[j]].functions \cap cyc[cycles[k]].functions = {}
        /\ \A k \in 1 .. Len(cycles) :
               /\ Cardinality(cyc[cycles[k]].functions) > 1
               /\ \A f \in Ids :
                      f \in cyc[cycles[k]].functions <=> fn[f].cycle = cycles[k]

\* two cycles found with the functions inserted in descending order, after a
\* component was met again from a later root (more Cycle objects were created
\* than Profile.cycles keeps)
C6_TwoCyclesDescending ==
    /\ pc = "cycles"
    /\ functions = Descending
    /\ Len(cycles) = 2
    /\ Cardinality(DOMAIN cyc) > 2

\* C7: when c.add_function(f) is called and f belongs to another cycle c',
\* every function that was a member of c' is afterwards a member of c with
\* its cycle field set to c, and no function is a member of two Cycle objects.
C7_MergesOldCycle ==
    (pc = "add_function" /\ failed = "" /\ arg.cycle # NoCycle) =>
        /\ \A g \in arg.members :
               g \in cyc[arg.self].functions /\ fn[g].cycle = arg.self
        /\ \A g \in Ids :
               Cardinality({c \in DOMAIN cyc : g \in cyc[c].functions}) <= 1

\* C8: call_ratios(CALLS) leaves the ratio of a self-loop call unset and sets
\* that of any other call to call[CALLS] / total wherever total is not zero,
\* total being the cycle total when the callee is in a cycle the caller is
\* not in and the function total of the callee otherwise.
C8_CallRatio ==
    pc = "ratios" =>
        \A f \in Ids : \A i \in CallsFrom(f) :
            IF SelfLoopCall(f, i) THEN fn[f].calls[i].ratio = None
            ELSE TotalFor(f, i) # Zero =>
                     fn[f].calls[i].ratio =
                         RDiv(fn[f].calls[i].events[CALLS], TotalFor(f, i))

\* the cycle {1, 2, 4} entered from 0 at 1 and at 4: each entering call has
\* half the cycle total, the call 4 -> 1 inside the cycle has half the
\* function total of 1, and the self-loop of 2 has no ratio
C8_CycleAndFunctionTotals ==
    /\ pc = "ratios"
    /\ fn[1].cycle # NoCycle
    /\ cyc[fn[1].cycle].functions = {1, 2, 4}
    /\ Len(fn[0].calls) = 2
    /\ fn[0].calls[1].ratio = <<1, 2>> /\ fn[0].calls[2].ratio = <<1, 2>>
    /\ CycleTotal(fn[1].cycle) = Num(2)
    /\ FunctionTotal(1) = Num(2)
    /\ \E i \in CallsFrom(4) : fn[4].calls[i].callee_id = 1 /\ fn[4].calls[i].ratio = <<1, 2>>
    /\ \E i \in CallsFrom(2) : SelfLoopCall(2, i) /\ fn[2].calls[i].ratio = None

C10_RatiosInUnitInterval ==
    /\ pc \in {"ratios", "integrated", "ratio"} =>
           \A f \in Ids : \A i \in CallsFrom(f) :
               ~SelfLoopCall(f, i) => InUnitInterval(fn[f].calls[i].ratio)
    /\ (pc = "ratio" /\ failed = "") =>
           \A f \in Ids :
               /\ InUnitInterval(fn[f].events[TOTAL_TIME_RATIO])
               /\ \A i \in CallsFrom(f) :
                      Has(fn[f].calls[i].events, TOTAL_TIME) =>
                          InUnitInterval(fn[f].calls[i].events[TOTAL_TIME_RATIO])

\* Profile.ratio has run on a profile where a negative count was clamped to
\* the ratio 0 and a function total above the profile's to the ratio 1
C10_ClampedBothWays ==
    /\ pc = "ratio"
    /\ failed = ""
    /\ \E f \in Ids : \E i \in CallsFrom(f) :
           /\ RLt(fn[f].calls[i].events[CALLS], Zero)
           /\ TotalFor(f, i) # Zero
           /\ fn[f].calls[i].ratio = Zero
    /\ \E f \in Ids : /\ RLt(pevents[TOTAL_TIME], fn[f].events[TOTAL_TIME])
                      /\ RLt(Zero, pevents[TOTAL_TIME])
                      /\ fn[f].events[TOTAL_TIME_RATIO] = One

-----------------------------------------------------------------------------
(* ratio(): out-of-range quotients *)

\* the quotient ratio() was called with lies outside [0, 1] by more than tol
BeyondTolerance ==
    /\ arg[2][1] # 0
    /\ \/ MoreThanTol(RSub(Zero, RDiv(arg[1], arg[2])))
       \/ MoreThanTol(RSub(RDiv(arg[1], arg[2]), One))

\* the quotient lies outside [0, 1]
OutOfRange ==
    /\ arg[2][1] # 0
    /\ \/ RLt(RDiv(arg[1], arg[2]), Zero)
       \/ RLt(One, RDiv(arg[1], arg[2]))

\* C11 as stated: a quotient outside [0, 1] by more than the tolerance makes
\* ratio() fail (raise) instead of returning a clamped value.
C11_FailsLoudly ==
    (pc = "ratio_returned" /\ BeyondTolerance) => res.raised # ""

\* C11 as amended: a quotient outside [0, 1] by more than the tolerance makes
\* ratio() write a warning to stderr and return the clamped value, 0.0 below
\* and 1.0 above, without raising; outside [0, 1] but within the tolerance it
\* returns the clamped value and writes nothing.
C11_WarnsAndClamps ==
    (pc = "ratio_returned" /\ OutOfRange) =>
        /\ res.raised = ""
        /\ res.ret = (IF RLt(RDiv(arg[1], arg[2]), Zero) THEN Zero ELSE One)
        /\ (res.stderr # "") <=> BeyondTolerance

\* a quotient above 1 + tol was clamped to 1.0 with a warning
C11_ClampedBeyondTolerance ==
    /\ pc = "ratio_returned"
    /\ BeyondTolerance
    /\ RLt(One, RDiv(arg[1], arg[2]))
    /\ arg[2] = Num(Fine)
    /\ res.ret = One
    /\ res.stderr # ""

-----------------------------------------------------------------------------
(* Profile.validate *)

\* the callee of the i-th call of f is a key of Profile.functions
Resolves(f, i) == fn[f].calls[i].callee_id \in SeqToSet(functions)

\* the positions of the calls of f that do not resolve
Dangling(f) == {i \in 1 .. Len(fn[f].calls) : ~Resolves(f, i)}

\* s is t without the entries at the positions in D, in the same order
IsWithout(s, t, D) ==
    /\ Len(s) = Len(t) - Cardinality(D)
    /\ \A i \in (1 .. Len(t)) \ D :
           s[i - Cardinality({j \in D : j < i})] = t[i]

\* C12: validate removes exactly the calls whose callee id is no key of
\* Profile.functions and writes one warning for each of them, without
\* failing; it removes no function and changes nothing else, so that
\* afterwards every call resolves, and a second validate removes nothing and
\* warns about nothing.
C12_ValidateRemovesDangling ==
    [][(Validate \/ Revalidate) =>
           /\ failed' = ""
           /\ functions' = functions
           /\ DOMAIN fn' = DOMAIN fn
           /\ \A f \in DOMAIN fn :
                  /\ IsWithout(fn'[f].calls, fn[f].calls, Dangling(f))
                  /\ fn'[f].events = fn[f].events
                  /\ \A i \in Dangling(f) :
                         Cardinality({k \in 1 .. Len(res') :
                             /\ res'[k].callee_id = fn[f].calls[i].callee_id
                             /\ res'[k].function = f}) = 1
           /\ Len(res') = Cardinality({<<f, i>> \in (DOMAIN fn) \X (1 .. (NumKnown + NumUnknown)) : i \in Dangling(f)})
           /\ \A f \in DOMAIN fn' : \A i \in 1 .. Len(fn'[f].calls) :
                  fn'[f].calls[i].callee_id \in SeqToSet(functions')
           /\ Revalidate => (fn' = fn /\ res' = <<>>)]_vars

\* validate has removed two calls of function 0 to undefined ids, with a
\* warning for each, and has kept its call to function 1 and the calls of
\* function 1
C12_DanglingRemoved ==
    /\ pc = "validated"
    /\ failed = ""
    /\ Len(res) = 2
    /\ res[1].function = 0 /\ res[2].function = 0
    /\ res[1].callee_id # res[2].callee_id
    /\ {res[1].callee_id, res[2].callee_id} \cap SeqToSet(functions) = {}
    /\ Len(fn[0].calls) = 1 /\ fn[0].calls[1].callee_id = 1
    /\ Len(fn[1].calls) = NumKnown

-----------------------------------------------------------------------------
(* Profile.prune *)

\* the total-time ratio of an object, None when undefined
TotalRatio(events) ==
    IF Has(events, TOTAL_TIME_RATIO) THEN events[TOTAL_TIME_RATIO] ELSE None

\* the weight prune goes by for the i-th call of f: its own ratio, else the
\* smaller of the caller's and the callee's when both are defined, else None
CallWeight(f, i) ==
    IF TotalRatio(fn[f].calls[i].events) # None THEN TotalRatio(fn[f].calls[i].events)
    ELSE IF TotalRatio(fn[f].events) # None
            /\ TotalRatio(fn[fn[f].calls[i].callee_id].events) # None
         THEN IF RLe(TotalRatio(fn[f].events), TotalRatio(fn[fn[f].calls[i].callee_id].events))
              THEN TotalRatio(fn[f].events)
              ELSE TotalRatio(fn[fn[f].calls[i].callee_id].events)
         ELSE None

\* C13: after prune(node_thres, edge_thres) on a validated profile a function
\* that was present is still present exactly if its total-time ratio is
\* undefined or at least node_thres; the functions left keep their order and
\* nothing fails.
C13_NodesPruned ==
    [][\A node_thres \in Shares, edge_thres \in Shares :
           Prune(node_thres, edge_thres) =>
               /\ failed' = ""
               /\ SeqToSet(functions') \subseteq SeqToSet(functions)
               /\ \A f \in SeqToSet(functions) :
                      (f \in SeqToSet(functions')) <=>
                          (\/ TotalRatio(fn[f].events) = None
                           \/ RLe(node_thres, TotalRatio(fn[f].events)))
               /\ \A f \in SeqToSet(functions) :
                      (TotalRatio(fn[f].events) # None
                          /\ RLt(TotalRatio(fn[f].events), node_thres))
                      => fn'[f].weight # None /\ f \notin SeqToSet(functions')]_vars

\* prune(1/2, 0) has removed function 0 (ratio 0), kept function 1 (ratio
\* exactly 1/2) and kept function 2, whose ratio is undefined
C13_KeptAtThreshold ==
    /\ pc = "pruned"
    /\ arg.node_thres = Rat(1, MaxShare)
    /\ functions = <<1, 2>>
    /\ TotalRatio(fn[0].events) = Zero
    /\ TotalRatio(fn[1].events) = Rat(1, MaxShare)
    /\ TotalRatio(fn[2].events) = None /\ fn[2].weight = None

\* C14: after prune a call of a function that is left is still there exactly
\* if its callee is left and its weight is unset or at least edge_thres, the
\* weight being the call's own total-time ratio when defined, else the
\* smaller of the caller's and the callee's when both are defined; the calls
\* left keep their events, and none of them refers to a removed function.
C14_EdgesPruned ==
    [][\A node_thres \in Shares, edge_thres \in Shares :
           Prune(node_thres, edge_thres) =>
               /\ \A f \in SeqToSet(functions') :
                      \A i \in 1 .. Len(fn[f].calls) :
                          (\E k \in 1 .. Len(fn'[f].calls) :
                               /\ fn'[f].calls[k].callee_id = fn[f].calls[i].callee_id
                               /\ fn'[f].calls[k].events = fn[f].calls[i].events
                               /\ fn'[f].calls[k].weight = CallWeight(f, i))
                          <=> (/\ fn[f].calls[i].callee_id \in SeqToSet(functions')
                               /\ \/ CallWeight(f, i) = None
                                  \/ RLe(edge_thres, CallWeight(f, i)))
               /\ \A f \in SeqToSet(functions') :
                      /\ Len(fn'[f].calls) <= Len(fn[f].calls)
                      /\ \A k \in 1 .. Len(fn'[f].calls) :
                             fn'[f].calls[k].callee_id \in SeqToSet(functions')]_vars

\* prune(1/2, 1/2) has kept functions 0 and 1 and removed function 2: of the
\* two calls of function 0 the one to function 1, without a ratio of its
\* own, is kept with the weight min(1, 1/2), and the one to function 2, with
\* ratio 1, is removed with its callee
C14_FallbackKeptCalleeGone ==
    /\ pc = "pruned"
    /\ arg.node_thres = Rat(1, MaxShare) /\ arg.edge_thres = Rat(1, MaxShare)
    /\ functions = <<0, 1>>
    /\ TotalRatio(fn[0].events) = One /\ TotalRatio(fn[1].events) = Rat(1, MaxShare)
    /\ Len(fn[0].calls) = 1
    /\ fn[0].calls[1].callee_id = 1
    /\ TotalRatio(fn[0].calls[1].events) = None
    /\ fn[0].calls[1].weight = Rat(1, MaxShare)
    /\ fn[1].calls = <<>>

\* C15 as stated: after prune with node threshold 1.0 every function left has
\* the total-time ratio 1.0.
C15_OnlyRatioOne ==
    (pc = "pruned" /\ arg.node_thres = One) =>
        \A f \in SeqToSet(functions) : TotalRatio(fn[f].events) = One

\* C15 as amended: after prune with node threshold 1.0 every function left
\* has the total-time ratio 1.0 or no total-time ratio at all.
C15_RatioOneOrUndefined ==
    (pc = "pruned" /\ arg.node_thres = One) =>
        \A f \in SeqToSet(functions) :
            TotalRatio(fn[f].events) = One \/ TotalRatio(fn[f].events) = None

\* prune(1, 0) has removed function 0 (ratio 1/2) and function 1 (ratio 0)
\* and left function 2 with ratio 1
C15_ThresholdOne ==
    /\ pc = "pruned"
    /\ arg.node_thres = One
    /\ functions = <<2>>
    /\ TotalRatio(fn[0].events) = Rat(1, MaxShare)
    /\ TotalRatio(fn[1].events) = Zero
    /\ TotalRatio(fn[2].events) = One

-----------------------------------------------------------------------------
(* Object.__getitem__, Object.__setitem__ *)

\* C16: on an Object, after any sequence of assignments, obj[e] returns the
\* value of the last assignment to e when that value was not None, also when
\* it is the null value 0, and raises UndefinedEvent, returning nothing, when
\* e was never assigned or was last assigned None; assigning None removes the
\* entry and changes nothing when there is none; no assignment touches
\* another event, and reading changes nothing, whether it fails or not.
C16_StoreFollowsLastSet ==
    [][/\ \A e \in StoreEvents :
              ObjectGet(e) =>
                  /\ pevents' = pevents
                  /\ (arg[e] # None) => (res'.ret = arg[e] /\ res'.raised = "")
                  /\ (arg[e] = None) => (res'.ret = None /\ res'.raised = "UndefinedEvent")
       /\ \A e \in StoreEvents, v \in StoreValues :
              ObjectSet(e, v) =>
                  /\ res'.raised = ""
                  /\ Has(pevents', e) <=> (v # None)
                  /\ (v = None /\ ~Has(pevents, e)) => pevents' = pevents
                  /\ \A o \in StoreEvents \ {e} :
                         /\ Has(pevents', o) <=> Has(pevents, o)
                         /\ Has(pevents, o) => pevents'[o] = pevents[o]]_vars

\* obj[TIME] has returned 0, the null value, while CALLS, last assigned None
\* or never assigned, is undefined, and so is TOTAL_TIME
C16_NullValueDefined ==
    /\ pc = "object_used"
    /\ res.op = "get" /\ res.event = TIME /\ res.ret = Zero /\ res.raised = ""
    /\ arg[CALLS] = None /\ ~Has(pevents, CALLS)
    /\ ~Has(pevents, TOTAL_TIME)

-----------------------------------------------------------------------------
(* Function.add_call *)

\* the positions of the calls of function 0 to callee id
CallsFor(id) == {i \in 1 .. Len(fn[0].calls) : fn[0].calls[i].callee_id = id}

\* the calls of function 0 hold at most one Call per callee id, the one
\* added last for that id, and none for an id that was never added
LastCallPerCallee ==
    \A id \in AddCallIds :
        /\ Cardinality(CallsFor(id)) <= 1
        /\ (arg[id] = None) <=> (CallsFor(id) = {})
        /\ \A i \in CallsFor(id) : fn[0].calls[i] = arg[id]

\* C17: after any sequence of add_call the calls of the function hold at
\* most one Call per callee id, the one added last for that id; add_call
\* never raises, warns exactly when the callee id is already there, and
\* leaves the calls to the other callee ids as they were.
C17_LastWriteWins ==
    [][\A call \in AddCallArgs :
           AddCall(call) =>
               /\ LastCallPerCallee'
               /\ res'.raised = ""
               /\ (res'.stderr # "") <=> HasCall(fn[0].calls, call.callee_id)
               /\ \A i \in 1 .. Len(fn[0].calls) :
                      fn[0].calls[i].callee_id # call.callee_id =>
                          fn'[0].calls[i] = fn[0].calls[i]
               /\ \A i \in 1 .. Len(fn'[0].calls) :
                      fn'[0].calls[i].callee_id # call.callee_id =>
                          (i <= Len(fn[0].calls) /\ fn[0].calls[i] = fn'[0].calls[i])]_vars

\* a Call to callee 0 with CALLS 1 has just overwritten an earlier one, with
\* a warning, between the calls to callees 1 and 2 added before and after
\* the first
C17_Overwritten ==
    /\ pc = "call_added"
    /\ res.stderr # "" /\ res.raised = ""
    /\ Len(fn[0].calls) = 3
    /\ fn[0].calls[1].callee_id = 1
    /\ fn[0].calls[2] = NewCall(0, SetItem(NoEvents, CALLS, One))
    /\ fn[0].calls[3].callee_id = 2
    /\ arg[0] = fn[0].calls[2]

-----------------------------------------------------------------------------
(* Profile.integrate: the preconditions *)

\* TOTAL_TIME, the outevent, is defined on the profile, on a function or on a
\* call
OutDefinedWhereChecked ==
    \/ Has(pevents, TOTAL_TIME)
    \/ \E f \in SeqToSet(functions) : Has(fn[f].events, TOTAL_TIME)
    \/ \E f \in SeqToSet(functions) : \E i \in 1 .. Len(fn[f].calls) :
           Has(fn[f].calls[i].events, TOTAL_TIME)

\* the outevent is defined on a cycle of the profile
OutDefinedOnCycle ==
    \E c \in SeqToSet(cycles) : Has(cyc[c].events, TOTAL_TIME)

\* TIME, the inevent, is undefined on some function
InUndefined == \E f \in SeqToSet(functions) : ~Has(fn[f].events, TIME)

\* some call that is no self-loop has no ratio
Unrated ==
    \E f \in SeqToSet(functions) : \E i \in 1 .. Len(fn[f].calls) :
        fn[f].calls[i].callee_id # f /\ fn[f].calls[i].ratio = None

\* the step ends in a failed assertion and has changed no event of the
\* profile, the functions, the calls and the cycles
FailsUnmodified ==
    /\ failed' \in {"assert outevent not in self", "assert outevent not in function",
                    "assert inevent in function", "assert outevent not in call",
                    "assert call.ratio is not None"}
    /\ fn' = fn
    /\ cyc' = cyc
    /\ pevents' = pevents

\* C18 as stated: integrate fails with an assertion, before it modifies any
\* event, whenever the outevent is already defined on the profile, a
\* function, a call or a cycle, the inevent is undefined on some function, or
\* some call that is no self-loop has no ratio.
C18_AssertsEveryViolation ==
    [][((Integrate \/ IntegrateUnrated)
            /\ (OutDefinedWhereChecked \/ OutDefinedOnCycle \/ InUndefined \/ Unrated))
       => FailsUnmodified]_vars

\* C18 as amended: integrate fails with an assertion, before it modifies any
\* event, whenever the outevent is already defined on the profile, a function
\* or a call, the inevent is undefined on some function, or some call that is
\* no self-loop has no ratio.
C18_AssertsCheckedViolations ==
    [][((Integrate \/ IntegrateUnrated)
            /\ (OutDefinedWhereChecked \/ InUndefined \/ Unrated))
       => FailsUnmodified]_vars

\* integrate has failed on a call that already had the outevent, in a
\* profile with a cycle, before storing the sum of the inevent on the profile
C18_FailedOnCall ==
    /\ pc = "integrated"
    /\ arg # <<>>
    /\ arg.target = "call"
    /\ failed = "assert outevent not in call"
    /\ cycles # <<>>
    /\ ~Has(pevents, TIME)
    /\ \A f \in SeqToSet(functions) : ~Has(fn[f].events, TOTAL_TIME)

-----------------------------------------------------------------------------
(* The passes and the raw events *)

\* the events set by ingestion
RawEvents == {CALLS, TIME}

\* every value of a raw event in the store before is in the store after, and
\* the store after holds no raw event that the store before did not hold
RawKept(before, after) ==
    \A e \in RawEvents :
        /\ Has(before, e) <=> Has(after, e)
        /\ Has(before, e) => after[e] = before[e]

\* C19: find_cycles, call_ratios and integrate(TOTAL_TIME, TIME) leave every
\* raw event value as it was on the profile, on every function and on every
\* call, the inevent TIME in particular, and add no raw value.
C19_RawEventsKept ==
    [][(FindCycles \/ CallRatios \/ Integrate) =>
           /\ RawKept(pevents, pevents')
           /\ \A f \in DOMAIN fn :
                  /\ RawKept(fn[f].events, fn'[f].events)
                  /\ Len(fn'[f].calls) = Len(fn[f].calls)
                  /\ \A i \in 1 .. Len(fn[f].calls) :
                         RawKept(fn[f].calls[i].events, fn'[f].calls[i].events)]_vars

-----------------------------------------------------------------------------
(* Profile.integrate: where the outevent is defined afterwards *)

\* the i-th call of f is no self-loop and leads out of f's cycle, or f is in
\* no cycle
LeavesCycle(f, i) ==
    /\ fn[f].calls[i].callee_id # f
    /\ fn[f].cycle = NoCycle \/ fn[fn[f].calls[i].callee_id].cycle # fn[f].cycle

\* the i-th call of f is no self-loop and leads to a member of f's cycle
InsideCycle(f, i) ==
    /\ fn[f].calls[i].callee_id # f
    /\ fn[f].cycle # NoCycle
    /\ fn[fn[f].calls[i].callee_id].cycle = fn[f].cycle

\* some function outside the cycle calls a member of it
CalledFromOutside(c) ==
    \E f \in SeqToSet(functions) : \E i \in 1 .. Len(fn[f].calls) :
        fn[f].cycle # c /\ fn[fn[f].calls[i].callee_id].cycle = c

\* C20 as stated: after integrate has completed, TOTAL_TIME is defined on the
\* profile, on every function, on every cycle and on every call that is no
\* self-loop, the calls between members of one cycle included.
C20_OutDefinedOnEveryCall ==
    (pc = "integrated" /\ failed = "") =>
        /\ Has(pevents, TOTAL_TIME)
        /\ \A c \in SeqToSet(cycles) : Has(cyc[c].events, TOTAL_TIME)
        /\ \A f \in SeqToSet(functions) :
               /\ Has(fn[f].events, TOTAL_TIME)
               /\ \A i \in 1 .. Len(fn[f].calls) :
                      fn[f].calls[i].callee_id # f =>
                          Has(fn[f].calls[i].events, TOTAL_TIME)

\* C20 as amended: after integrate has completed, TOTAL_TIME is defined on
\* the profile, on every function, on every cycle and on every call that is
\* no self-loop and does not stay inside a cycle; in a cycle that no function
\* outside it calls, no call between two members has TOTAL_TIME.
C20_OutDefinedOutsideCycles ==
    (pc = "integrated" /\ failed = "") =>
        /\ Has(pevents, TOTAL_TIME)
        /\ \A c \in SeqToSet(cycles) : Has(cyc[c].events, TOTAL_TIME)
        /\ \A f \in SeqToSet(functions) :
               /\ Has(fn[f].events, TOTAL_TIME)
               /\ \A i \in 1 .. Len(fn[f].calls) :
                      /\ LeavesCycle(f, i) => Has(fn[f].calls[i].events, TOTAL_TIME)
                      /\ (InsideCycle(f, i) /\ ~CalledFromOutside(fn[f].cycle))
                             => ~Has(fn[f].calls[i].events, TOTAL_TIME)

\* integrate has completed on a profile with the cycle {1, 2}, entered by
\* the call 0 -> 1, and the cycle {3, 4}, which no function outside calls:
\* 1 -> 2 has TOTAL_TIME, 2 -> 1 has none, and neither 3 -> 4 nor 4 -> 3 has
C20_TwoKindsOfCycle ==
    /\ pc = "integrated" /\ failed = ""
    /\ Len(cycles) = 2
    /\ fn[1].cycle # NoCycle /\ fn[2].cycle = fn[1].cycle
    /\ fn[3].cycle # NoCycle /\ fn[4].cycle = fn[3].cycle /\ fn[3].cycle # fn[1].cycle
    /\ CalledFromOutside(fn[1].cycle) /\ ~CalledFromOutside(fn[3].cycle)
    /\ \E i \in 1 .. Len(fn[1].calls) :
           fn[1].calls[i].callee_id = 2 /\ Has(fn[1].calls[i].events, TOTAL_TIME)
    /\ \E i \in 1 .. Len(fn[2].calls) :
           fn[2].calls[i].callee_id = 1 /\ ~Has(fn[2].calls[i].events, TOTAL_TIME)
    /\ Has(fn[3].events, TOTAL_TIME) /\ Has(fn[4].events, TOTAL_TIME)


-----------------------------------------------------------------------------
(* Profile.prune_root and Profile.prune_leaf *)

\* set.pop(): some element; the smallest here, the outcome of the loops
\* below is the same for any
Pop(frontier) == CHOOSE n \in frontier : \A m \in frontier : n <= m

\* the orders in which a for loop over the set S may fill a dict
Orderings(S) ==
    {s \in [1 .. Cardinality(S) -> S] :
        \A i, j \in 1 .. Cardinality(S) : i # j => s[i] # s[j]}

\* f.calls.keys()
CallKeys(function) == {function.calls[i].callee_id : i \in 1 .. Len(function.calls)}

prune_root_frontier_last(frontier, newNodes, visited) == newNodes \ visited

\* "frontier = frontier.union(set(newNodes) - visited)"
prune_root_frontier(frontier, newNodes, visited) ==
    frontier \cup (newNodes \ visited)

\* the while loop of prune_root; self.functions[node] raises KeyError for a
\* node that is no key
RECURSIVE prune_root_visit(_, _)
prune_root_visit(visited, frontier) ==
    IF frontier = {} THEN [visited |-> visited, fail |-> ""]
    ELSE IF Pop(frontier) \notin SeqToSet(functions)
    THEN [visited |-> visited \cup {Pop(frontier)}, fail |-> "KeyError"]
    ELSE prune_root_visit(
             visited \cup {Pop(frontier)},
             prune_root_frontier(frontier \ {Pop(frontier)},
                                 CallKeys(fn[Pop(frontier)]),
                                 visited \cup {Pop(frontier)}))

\* Profile.prune_root: the set of keys of the new self.functions
prune_root(root) == prune_root_visit({}, {root})

\* edgesUp[n]: the keys of the functions that have a call to n
edgesUp(n) == {f \in SeqToSet(functions) : n \in CallKeys(fn[f])}

\* the while loop of prune_leaf
RECURSIVE prune_leaf_visit(_, _)
prune_leaf_visit(visited, frontier) ==
    IF frontier = {} THEN visited
    ELSE prune_leaf_visit(
             visited \cup {Pop(frontier)},
             (frontier \ {Pop(frontier)})
                 \cup (edgesUp(Pop(frontier)) \ (visited \cup {Pop(frontier)})))

\* path = downTree.intersection(upTree)
prune_leaf_path(leaf) == SeqToSet(functions) \cap prune_leaf_visit({}, {leaf})

prune_leaf_calls_all(callseq, path) == callseq

\* newCalls: the calls of f whose callee is in path, in their order
RECURSIVE prune_leaf_calls(_, _)
prune_leaf_calls(callseq, path) ==
    IF callseq = <<>> THEN <<>>
    ELSE (IF Head(callseq).callee_id \in path THEN <<Head(callseq)>> ELSE <<>>)
         \o prune_leaf_calls(Tail(callseq), path)

\* Profile.prune_leaf: the keys of the new self.functions and the functions
\* of path with their new calls; the functions outside path are no longer
\* referenced and keep theirs
prune_leaf(leaf) ==
    TheOne({
        [functions |-> path,
         fn |-> [id \in DOMAIN fn |->
                   IF id \in path
                   THEN [fn[id] EXCEPT !.calls = prune_leaf_calls(@, path)]
                   ELSE fn[id]]]
      : path \in {prune_leaf_path(leaf)} })

-----------------------------------------------------------------------------
(* prune_root and prune_leaf on their own: profiles of the functions of     *)
(* SubgraphCalls with any subset of these calls, in either dict order; a    *)
(* root pruning, a leaf pruning, or the first followed by the second as in  *)
(* main().                                                                  *)

\* the calls a profile may hold: a chain, a branch, a loop, a self-loop and
\* a call into the chain from a function nothing calls
SubgraphCalls == << <<0, 1>>, <<1, 2>>, <<1, 1>>, <<2, 0>>, <<0, 3>>, <<3, 2>> >>

NodeIds ==
    UNION {{SubgraphCalls[i][1], SubgraphCalls[i][2]} : i \in 1 .. Len(SubgraphCalls)}

Reverse(s) == [i \in 1 .. Len(s) |-> s[Len(s) + 1 - i]]

RECURSIVE SubgraphCallsOf(_, _, _)
SubgraphCallsOf(f, present, i) ==
    IF i > Len(SubgraphCalls) THEN <<>>
    ELSE (IF SubgraphCalls[i][1] = f /\ i \in present
          THEN <<NewCall(SubgraphCalls[i][2], NoEvents)>> ELSE <<>>)
         \o SubgraphCallsOf(f, present, i + 1)

InitSubgraph ==
    \E present \in SUBSET (1 .. Len(SubgraphCalls)), ascending \in BOOLEAN :
        /\ pc = "subgraph_args"
        /\ functions = IF ascending THEN SetToSeq(NodeIds)
                       ELSE Reverse(SetToSeq(NodeIds))
        /\ fn = [f \in NodeIds |-> NewFunction(NoEvents, SubgraphCallsOf(f, present, 1))]
        /\ cycles = <<>>
        /\ cyc = EmptyMap
        /\ pevents = NoEvents
        /\ failed = ""
        /\ depth = 0
        /\ arg = <<>>
        /\ res = <<>>

\* profile.prune_root(root) for a root that is a key, as main() passes it:
\* arg is the argument, res the profile as it was before the call
PruneRoot(root) ==
    /\ pc = "subgraph_args"
    /\ failed = ""
    /\ root \in SeqToSet(functions)
    /\ arg' = [root |-> root]
    /\ res' = [functions |-> functions, fn |-> fn]
    /\ pc' = "root_pruned"
    /\ \E st \in {prune_root(root)} :
           /\ failed' = st.fail
           /\ IF st.fail = ""
              THEN \E order \in Orderings(st.visited) : functions' = order
              ELSE functions' = functions
    /\ UNCHANGED <<fn, cycles, cyc, pevents, depth>>

\* profile.prune_leaf(leaf) for a leaf that is a key
PruneLeaf(leaf) ==
    /\ pc \in {"subgraph_args", "root_pruned"}
    /\ failed = ""
    /\ leaf \in SeqToSet(functions)
    /\ arg' = [leaf |-> leaf]
    /\ res' = [functions |-> functions, fn |-> fn]
    /\ pc' = "leaf_pruned"
    /\ \E st \in {prune_leaf(leaf)} :
           /\ fn' = st.fn
           /\ \E order \in Orderings(st.functions) : functions' = order
    /\ UNCHANGED <<cycles, cyc, pevents, failed, depth>>

NextSubgraph ==
    \/ \E root \in NodeIds : PruneRoot(root)
    \/ \E leaf \in NodeIds : PruneLeaf(leaf)

SpecSubgraph == InitSubgraph /\ [][NextSubgraph]_vars

-----------------------------------------------------------------------------
(* PstatsParser: the profile that parse() builds from pstats' tables *)

\* the keys of pstats, (filename, line, name); a filename is given by its
\* directory, its base name without extension and its extension.  The first
\* and the third function get the same display name.
StatsKeys ==
    << [filename |-> [dir |-> "x/", module |-> "m", ext |-> ".py"], line |-> 1, name |-> "f"],
       [filename |-> [dir |-> "x/", module |-> "m", ext |-> ".py"], line |-> 2, name |-> "g"],
       [filename |-> [dir |-> "y/", module |-> "m", ext |-> ".py"], line |-> 1, name |-> "f"] >>

\* cumulative time ct of each key, in units of the self time tt
StatsTotals == <<3, 2, 1>>

\* the caller entries the tables may hold, as <<caller, callee>>
StatsEdges == << <<1, 2>>, <<2, 3>>, <<2, 1>> >>

\* "%s:%d:%s" % (module, line, name), module being the base name of the file
\* without its extension
get_function_name(key) ==
    key.filename.module \o ":" \o ToString(key.line) \o ":" \o key.name

\* Function(id, name) with function.filename = key[0]
get_function_new(key) ==
    [calls |-> <<>>, cycle |-> NoCycle, weight |-> None, events |-> NoEvents,
     name |-> get_function_name(key), called |-> None,
     filename |-> key.filename.dir \o key.filename.module \o key.filename.ext]

\* "id = len(self.function_ids)"
get_function_id(function_ids) == Cardinality(DOMAIN function_ids)

\* PstatsParser.get_function: st holds self.function_ids and the profile
get_function(st, key) ==
    IF key \in DOMAIN st.function_ids THEN st
    ELSE [st EXCEPT
             !.function_ids = Put(@, key, get_function_id(st.function_ids)),
             !.fn = Put(@, get_function_id(st.function_ids), get_function_new(key)),
             !.functions = Append(@, get_function_id(st.function_ids))]

\* max(a, b) of Python: b when b > a, else a
RMax(a, b) == IF RLt(a, b) THEN b ELSE a

\* the body of the loop over a callee's callers, for a value (nc, cc, tt, ct)
parse_caller(st, callee_id, caller, cc, ct) ==
    TheOne({
        [s1 EXCEPT !.fn[s1.function_ids[caller]].calls =
            add_call(@, NewCall(callee_id,
                                SetItem(SetItem(NoEvents, CALLS, cc), TOTAL_TIME, ct)))]
      : s1 \in {get_function(st, caller)} })

RECURSIVE parse_callers(_, _, _, _)
parse_callers(st, callee_id, callers, ct) ==
    IF callers = <<>> THEN st
    ELSE parse_callers(parse_caller(st, callee_id, Head(callers), One, ct),
                       callee_id, Tail(callers), ct)

\* the body of the loop over self.stats.stats for the entry
\* fn: (cc, nc, tt, ct, callers)
parse_entry(st, key, nc, tt, ct, callers) ==
    TheOne({
        parse_callers(
            [s1 EXCEPT
                !.fn[s1.function_ids[key]].called = nc,
                !.fn[s1.function_ids[key]].events =
                    SetItem(SetItem(@, TOTAL_TIME, ct), TIME, tt),
                !.pev = SetItem(SetItem(@, TIME, RAdd(@[TIME], tt)),
                                TOTAL_TIME, RMax(@[TOTAL_TIME], ct))],
            s1.function_ids[key], callers, ct)
      : s1 \in {get_function(st, key)} })

\* the callers of the k-th key in the tables that hold the entries present
RECURSIVE CallersOf(_, _, _)
CallersOf(k, present, i) ==
    IF i > Len(StatsEdges) THEN <<>>
    ELSE (IF StatsEdges[i][2] = k /\ i \in present
          THEN <<StatsKeys[StatsEdges[i][1]]>> ELSE <<>>)
         \o CallersOf(k, present, i + 1)

\* the loop of parse() over the tables, in their dict order
RECURSIVE parse_entries(_, _, _)
parse_entries(st, order, present) ==
    IF order = <<>> THEN st
    ELSE parse_entries(
             parse_entry(st, StatsKeys[Head(order)], 1, One,
                         Num(StatsTotals[Head(order)]),
                         CallersOf(Head(order), present, 1)),
             Tail(order), present)

\* parse() up to "Compute derived events"; total_tt of pstats is the sum of
\* the self times
parse(stats) ==
    parse_entries(
        [functions |-> <<>>, fn |-> EmptyMap, function_ids |-> EmptyMap,
         pev |-> SetItem(SetItem(NoEvents, TIME, Zero), TOTAL_TIME, Num(Len(StatsKeys)))],
        stats.order, stats.present)

-----------------------------------------------------------------------------
(* DotWriter.graph *)

\* "%.<p>f" % x for scale = 10^p: <<the digits of x rounded to p places,
\* ties to even, scale>>
Fixed(x, scale) ==
    TheOne({
        << IF 2 * (s[1] % s[2]) > s[2] THEN (s[1] \div s[2]) + 1
           ELSE IF 2 * (s[1] % s[2]) = s[2]
           THEN (s[1] \div s[2]) + ((s[1] \div s[2]) % 2)
           ELSE s[1] \div s[2],
           scale >>
      : s \in {RMul(x, Num(scale))} })

\* percentage(p): "%.02f%%" % (p*100.0,)
percentage(p) == Fixed(RMul(p, Num(100)), 100)

unsorted(keys) == keys

\* sorted_iteritems: the keys of the dict in ascending order
sorted_iteritems(keys) == SetToSeq(SeqToSet(keys))

\* the call of callseq with the key callee_id
CallAt(callseq, callee_id) ==
    callseq[CHOOSE i \in 1 .. Len(callseq) : callseq[i].callee_id = callee_id]

\* the keys of function.calls in dict order
CallOrder(callseq) == [i \in 1 .. Len(callseq) |-> callseq[i].callee_id]

\* _total_time_ratio_label, _time_ratio_label
total_time_ratio_label(function, total_time) ==
    [ratio |-> Fixed(function.events[TOTAL_TIME_RATIO], 100),
     time |-> Fixed(RMul(RMul(function.events[TOTAL_TIME_RATIO], total_time), Num(1000)), 1)]

time_ratio_label(function, total_time) ==
    [ratio |-> Fixed(function.events[TIME_RATIO], 100),
     time |-> Fixed(RMul(RMul(function.events[TIME_RATIO], total_time), Num(1000)), 10)]

\* the node statement of a function; weight stands for the colours and the
\* font size that the theme derives from it
graph_node(id, function, total_time) ==
    [node |-> id,
     label |-> <<function.name,
                 total_time_ratio_label(function, total_time),
                 time_ratio_label(function, total_time),
                 function.called>>,
     weight |-> IF function.weight # None THEN function.weight ELSE Zero,
     tooltip |-> function.filename]

\* the labels of a call: TOTAL_TIME_RATIO, then CALLS, where present
graph_edge_labels(call) ==
    (IF Has(call.events, TOTAL_TIME_RATIO)
     THEN <<percentage(call.events[TOTAL_TIME_RATIO])>> ELSE <<>>)
    \o (IF Has(call.events, CALLS) THEN <<call.events[CALLS]>> ELSE <<>>)

\* the edge statement of a call
graph_edge(id, call, callee) ==
    [edge |-> <<id, call.callee_id>>,
     label |-> graph_edge_labels(call),
     weight |-> IF call.weight # None THEN call.weight
                ELSE IF callee.weight # None THEN callee.weight
                ELSE Zero]

\* the loop over sorted_iteritems(function.calls); profile.functions[...]
\* raises KeyError for a callee that is no key
RECURSIVE graph_edges(_, _, _, _)
graph_edges(id, callseq, keys, st) ==
    IF keys = <<>> \/ st.fail # "" THEN st
    ELSE graph_edges(id, callseq, Tail(keys),
             IF Head(keys) \notin SeqToSet(functions)
             THEN [st EXCEPT !.fail = "KeyError"]
             ELSE [st EXCEPT !.out =
                      Append(@, graph_edge(id, CallAt(callseq, Head(keys)),
                                           fn[Head(keys)]))])

\* the loop over sorted_iteritems(profile.functions); function[...] raises
\* UndefinedEvent for a function without its ratios
RECURSIVE graph_functions(_, _, _)
graph_functions(keys, total_time, st) ==
    IF keys = <<>> \/ st.fail # "" THEN st
    ELSE graph_functions(Tail(keys), total_time,
             IF ~Has(fn[Head(keys)].events, TOTAL_TIME_RATIO)
                \/ ~Has(fn[Head(keys)].events, TIME_RATIO)
             THEN [st EXCEPT !.fail = "UndefinedEvent"]
             ELSE graph_edges(Head(keys), fn[Head(keys)].calls,
                              sorted_iteritems(CallOrder(fn[Head(keys)].calls)),
                              [st EXCEPT !.out =
                                  Append(@, graph_node(Head(keys), fn[Head(keys)],
                                                       total_time))]))

\* begin_graph and the three attr statements
graph_begin ==
    << [attr |-> "digraph {"], [attr |-> "graph"], [attr |-> "node"], [attr |-> "edge"] >>

\* DotWriter.graph(profile, theme): the statements written, with the
\* exception that ended the writing, if any
graph ==
    IF ~Has(pevents, TIME)
    THEN [out |-> graph_begin, fail |-> "KeyError"]
    ELSE TheOne({
            IF s1.fail # "" THEN s1 ELSE [s1 EXCEPT !.out = Append(@, [attr |-> "}"])]
          : s1 \in {graph_functions(sorted_iteritems(functions), pevents[TIME],
                        [out |-> graph_begin, fail |-> ""])} })

-----------------------------------------------------------------------------
(* main(): one run of the program on a pstats file *)

\* the values getFunctionId returns: a key, or False; "not x" holds of
\* False and of 0
PyFalse == [int |-> 0, bool |-> TRUE]
PyInt(n) == [int |-> n, bool |-> FALSE]
PyNot(x) == x.int = 0

\* Profile.getFunctionId: the first key, in dict order, of a function with
\* this name
getFunctionId(funcName) ==
    IF \E i \in 1 .. Len(functions) : fn[functions[i]].name = funcName
    THEN PyInt(functions[CHOOSE i \in 1 .. Len(functions) :
                   /\ fn[functions[i]].name = funcName
                   /\ \A j \in 1 .. (i - 1) : fn[functions[j]].name # funcName])
    ELSE PyFalse

\* the command lines: -n and -e as percentages, --root and --leaf as
\* function names ("" when the option is absent), one of them the name of
\* no function
MainPercentages == {Zero, Num(50)}
MainNames == {"", "m:1:f", "m:2:g", "m:3:h"}
MainOptions ==
    [node_thres : MainPercentages, edge_thres : MainPercentages,
     root : MainNames, leaf : MainNames \ {"m:3:h"}]

\* the pstats files: the tables in any dict order, with any of the caller
\* entries
MainStats ==
    [order : Orderings(1 .. Len(StatsKeys)), present : SUBSET (1 .. Len(StatsEdges))]

\* arg is the command line and the file, res what the run has called on the
\* profile and written
InitMain ==
    \E options \in MainOptions, stats \in MainStats :
        /\ pc = "main"
        /\ functions = <<>>
        /\ fn = EmptyMap
        /\ cycles = <<>>
        /\ cyc = EmptyMap
        /\ pevents = NoEvents
        /\ failed = ""
        /\ depth = 0
        /\ arg = [options |-> options, stats |-> stats]
        /\ res = [calls |-> <<>>, stderr |-> <<>>, out |-> <<>>, exit |-> 0]

\* a method call on the profile, as main and parse make it
Called(method, args) == [res EXCEPT !.calls = Append(@, [method |-> method, args |-> args])]

\* parser.parse(), the loop over the tables
MainParse ==
    /\ pc = "main"
    /\ failed = ""
    /\ \E st \in {parse(arg.stats)} :
           /\ functions' = st.functions
           /\ fn' = st.fn
           /\ pevents' = st.pev
    /\ pc' = "main_parsed"
    /\ UNCHANGED <<cycles, cyc, failed, depth, arg, res>>

\* parse(): self.profile.validate()
MainValidate ==
    /\ pc = "main_parsed"
    /\ failed = ""
    /\ fn' = [f \in DOMAIN fn |-> validate(fn[f])]
    /\ res' = [Called("validate", <<>>) EXCEPT !.stderr = @ \o validate_stderr(functions)]
    /\ pc' = "main_validated"
    /\ UNCHANGED <<functions, cycles, cyc, pevents, failed, depth, arg>>

\* parse(): self.profile.ratio(TIME_RATIO, TIME) and
\* self.profile.ratio(TOTAL_TIME_RATIO, TOTAL_TIME)
MainRatio(at, outevent, inevent, to) ==
    /\ pc = at
    /\ failed = ""
    /\ \E st \in {Profile_ratio(outevent, inevent)} :
           /\ fn' = st.fn
           /\ pevents' = st.pev
           /\ failed' = st.fail
    /\ res' = Called("ratio", <<outevent, inevent>>)
    /\ pc' = to
    /\ UNCHANGED <<functions, cycles, cyc, depth, arg>>

\* profile.prune(options.node_thres/100.0, options.edge_thres/100.0)
MainPrune ==
    /\ pc = "main_total_time_ratio"
    /\ failed = ""
    /\ \E st \in {prune(RDiv(arg.options.node_thres, Num(100)),
                        RDiv(arg.options.edge_thres, Num(100)))} :
           /\ functions' = st.functions
           /\ fn' = st.fn
           /\ failed' = st.fail
    /\ res' = Called("prune", <<RDiv(arg.options.node_thres, Num(100)),
                                RDiv(arg.options.edge_thres, Num(100))>>)
    /\ pc' = "main_pruned"
    /\ UNCHANGED <<cycles, cyc, pevents, depth, arg>>

\* "if options.root:" with its body
MainRoot ==
    /\ pc = "main_pruned"
    /\ failed = ""
    /\ arg.options.root # ""
    /\ \E rootId \in {getFunctionId(arg.options.root)} :
           IF PyNot(rootId)
           THEN /\ res' = [res EXCEPT !.stderr = Append(@, "root node not found"),
                                      !.exit = 1]
                /\ pc' = "main_exit"
                /\ UNCHANGED <<functions, failed>>
           ELSE /\ res' = Called("prune_root", <<rootId.int>>)
                /\ pc' = "main_rooted"
                /\ \E st \in {prune_root(rootId.int)} :
                       /\ failed' = st.fail
                       /\ IF st.fail = ""
                          THEN \E order \in Orderings(st.visited) : functions' = order
                          ELSE functions' = functions
    /\ UNCHANGED <<fn, cycles, cyc, pevents, depth, arg>>

\* where main is when it reaches "if options.leaf:"
main_before_leaf(options) ==
    IF options.root # "" THEN "main_rooted" ELSE "main_pruned"

\* "if options.leaf:" with its body
MainLeaf ==
    /\ pc = main_before_leaf(arg.options)
    /\ failed = ""
    /\ arg.options.leaf # ""
    /\ \E leafId \in {getFunctionId(arg.options.leaf)} :
           IF PyNot(leafId)
           THEN /\ res' = [res EXCEPT !.stderr = Append(@, "leaf node not found"),
                                      !.exit = 1]
                /\ pc' = "main_exit"
                /\ UNCHANGED <<functions, fn>>
           ELSE /\ res' = Called("prune_leaf", <<leafId.int>>)
                /\ pc' = "main_leafed"
                /\ \E st \in {prune_leaf(leafId.int)} :
                       /\ fn' = st.fn
                       /\ \E order \in Orderings(st.functions) : functions' = order
    /\ UNCHANGED <<cycles, cyc, pevents, failed, depth, arg>>

main_before_graph_unpruned(options) == "main_total_time_ratio"

\* where main is when it reaches dot.graph(profile, theme)
main_before_graph(options) ==
    IF options.leaf # "" THEN "main_leafed" ELSE main_before_leaf(options)

\* dot.graph(profile, theme)
MainGraph ==
    /\ pc = main_before_graph(arg.options)
    /\ failed = ""
    /\ \E st \in {graph} :
           /\ res' = [res EXCEPT !.out = st.out]
           /\ failed' = st.fail
    /\ pc' = "main_done"
    /\ UNCHANGED <<functions, fn, cycles, cyc, pevents, depth, arg>>

NextMain ==
    \/ MainParse
    \/ MainValidate
    \/ MainRatio("main_validated", TIME_RATIO, TIME, "main_time_ratio")
    \/ MainRatio("main_time_ratio", TOTAL_TIME_RATIO, TOTAL_TIME, "main_total_time_ratio")
    \/ MainPrune
    \/ MainRoot
    \/ MainLeaf
    \/ MainGraph

SpecMain == InitMain /\ [][NextMain]_vars

-----------------------------------------------------------------------------
(* Profile.integrate: a function's total and its own cost *)

\* C21 as stated: after call_ratios and integrate have completed on a
\* profile whose self times are not negative, every function, in a cycle or
\* not, has TOTAL_TIME >= TIME.
C21_TotalIncludesSelf ==
    (pc = "integrated" /\ failed = "") =>
        \A f \in SeqToSet(functions) :
            RLe(fn[f].events[TIME], fn[f].events[TOTAL_TIME])

-----------------------------------------------------------------------------
(* Profile.prune_root and Profile.prune_leaf *)

\* the calls of sequence callseq all lead to keys of the sequence order
AllResolve(callseq, order) ==
    \A i \in 1 .. Len(callseq) : callseq[i].callee_id \in SeqToSet(order)

\* the sequence order lists the elements of S, each once
Lists(order, S) == SeqToSet(order) = S /\ Len(order) = Cardinality(S)

\* the keys of the functions from which leaf is reached along calls
Ancestors(leaf) == {f \in SeqToSet(functions) : leaf \in ReachableFrom({f})}

\* C23: prune_root(root) on a profile without dangling calls raises nothing
\* and leaves in profile.functions exactly the functions reachable from root
\* along calls, root included; every function that is left has the calls it
\* had, and each of them leads to a function that is left.
C23_RootKeepsReachable ==
    [][\A root \in NodeIds :
          (PruneRoot(root) /\ \A f \in SeqToSet(functions) : AllResolve(fn[f].calls, functions))
              => /\ failed' = ""
                 /\ Lists(functions', ReachableFrom({root}))
                 /\ root \in SeqToSet(functions')
                 /\ \A f \in SeqToSet(functions') :
                        /\ fn'[f] = fn[f]
                        /\ AllResolve(fn'[f].calls, functions')]_vars

\* prune_root(2) on 2 -> 0 -> 3 -> 2 with function 1 outside: the loop
\* stays, function 1 goes
C23_LoopKept ==
    /\ pc = "root_pruned"
    /\ arg = [root |-> 2]
    /\ Len(res.functions) = 4
    /\ SeqToSet(functions) = {0, 2, 3}
    /\ Len(fn[3].calls) = 1

\* C24: prune_leaf(leaf) leaves in profile.functions exactly the functions
\* from which leaf is reachable along calls, leaf included; each of them
\* keeps, in their order, those of its calls whose callee is one of them,
\* so every call that is left resolves.
C24_LeafKeepsAncestors ==
    [][\A leaf \in NodeIds :
          PruneLeaf(leaf)
              => \E path \in {Ancestors(leaf)} :
                 /\ Lists(functions', path)
                 /\ leaf \in path
                 /\ \A f \in path :
                        /\ fn'[f].calls =
                               SelectSeq(fn[f].calls, LAMBDA call : call.callee_id \in path)
                        /\ fn'[f].events = fn[f].events
                        /\ AllResolve(fn'[f].calls, functions')]_vars

\* prune_leaf(1) on a profile where 0 calls 1 and 3: functions 0 and 1
\* stay, and 0 has lost its call to 3
C24_CallToOutsiderDropped ==
    /\ pc = "leaf_pruned"
    /\ arg = [leaf |-> 1]
    /\ SeqToSet(functions) = {0, 1}
    /\ Len(res.fn[0].calls) = 2
    /\ Len(fn[0].calls) = 1 /\ fn[0].calls[1].callee_id = 1

-----------------------------------------------------------------------------
(* main(): the passes of one run *)

\* the names of the methods called on the profile so far, in order
Methods == [i \in 1 .. Len(res.calls) |-> res.calls[i].method]

\* the passes named by the documented control flow
EnginePasses == {"validate", "find_cycles", "call_ratios", "integrate", "prune"}

\* C22 as stated: when the graph has been handed to the renderer, validate,
\* find_cycles, call_ratios, integrate and prune have each been called once
\* on the profile, in that order.
C22_AllPassesOnce ==
    pc = "main_done" =>
        SelectSeq(Methods, LAMBDA method : method \in EnginePasses)
            = <<"validate", "find_cycles", "call_ratios", "integrate", "prune">>

\* C22 as amended: when the graph has been handed to the renderer, the
\* methods called on the profile are validate, ratio(TIME_RATIO, TIME),
\* ratio(TOTAL_TIME_RATIO, TOTAL_TIME) and prune, once each and in that order,
\* then prune_root if --root is given and prune_leaf if --leaf is given;
\* find_cycles, call_ratios and integrate have left no trace (no Cycle, no
\* call ratio); and nothing is written before that.
C22_PassesOfMain ==
    /\ pc = "main_done" =>
          /\ Methods = <<"validate", "ratio", "ratio", "prune">>
                         \o (IF arg.options.root # "" THEN <<"prune_root">> ELSE <<>>)
                         \o (IF arg.options.leaf # "" THEN <<"prune_leaf">> ELSE <<>>)
          /\ res.calls[2].args = <<TIME_RATIO, TIME>>
          /\ res.calls[3].args = <<TOTAL_TIME_RATIO, TOTAL_TIME>>
          /\ cycles = <<>> /\ DOMAIN cyc = {}
          /\ \A f \in DOMAIN fn :
                 /\ fn[f].cycle = NoCycle
                 /\ \A i \in 1 .. Len(fn[f].calls) : fn[f].calls[i].ratio = None
    /\ pc # "main_done" => res.out = <<>>

\* a run with --root and --leaf that has written two nodes and the edge
\* between them
C22_RootAndLeafRendered ==
    /\ pc = "main_done" /\ failed = ""
    /\ Len(Methods) = 6
    /\ \E i \in 1 .. Len(res.out) : "edge" \in DOMAIN res.out[i]

-----------------------------------------------------------------------------
(* main(): --root and --leaf *)

\* some function of the profile has this name
Named(funcName) == \E f \in SeqToSet(functions) : fn[f].name = funcName

\* the step has called method on the profile with the key of a function
\* that has this name
CalledWithKeyOf(method, funcName) ==
    /\ Len(res'.calls) = Len(res.calls) + 1
    /\ res'.calls[Len(res'.calls)].method = method
    /\ res'.calls[Len(res'.calls)].args[1] \in SeqToSet(functions)
    /\ fn[res'.calls[Len(res'.calls)].args[1]].name = funcName

\* C30 as stated: for --root NAME (and likewise --leaf NAME) main exits with
\* the 'not found' error exactly if no function of the profile, as it is at
\* that point, has the name NAME; if one has, whatever its id, main calls
\* prune_root (prune_leaf) with the id of a function named NAME.
C30_NotFoundIffAbsent ==
    [][/\ MainRoot =>
            IF Named(arg.options.root)
            THEN pc' = "main_rooted" /\ CalledWithKeyOf("prune_root", arg.options.root)
            ELSE pc' = "main_exit" /\ res'.exit = 1
       /\ MainLeaf =>
            IF Named(arg.options.leaf)
            THEN pc' = "main_leafed" /\ CalledWithKeyOf("prune_leaf", arg.options.leaf)
            ELSE pc' = "main_exit" /\ res'.exit = 1]_vars

-----------------------------------------------------------------------------
(* DotWriter.graph: the order of the statements *)

\* the node and edge statements written, without begin_graph, the attr
\* statements and end_graph
Statements == SubSeq(res.out, Len(graph_begin) + 1, Len(res.out) - 1)

\* what a statement is about: <<id, -1>> for the node id, <<id, callee_id>>
\* for an edge
StatementKey(s) == IF "node" \in DOMAIN s THEN <<s.node, 0 - 1>> ELSE s.edge

\* a comes before b when the statements are listed node by node in ascending
\* id, each node followed by its edges in ascending callee id
KeyBefore(a, b) == a[1] < b[1] \/ (a[1] = b[1] /\ a[2] < b[2])

\* the order of the keys in a dict held as a sequence is not ascending
NotAscending(keys) == \E i \in 1 .. (Len(keys) - 1) : keys[i] > keys[i + 1]

\* C28: the statements written by DotWriter.graph are one node statement per
\* function and one edge statement per call, the nodes in ascending id and
\* each node followed by its edges in ascending callee id, whatever the
\* order of profile.functions and of the functions' calls; each statement
\* depends only on the function or call it is about, so the text is the same
\* for the same profile contents.
C28_SortedStatements ==
    (pc = "main_done" /\ failed = "") =>
        /\ SubSeq(res.out, 1, Len(graph_begin)) = graph_begin
        /\ \A i \in 1 .. (Len(Statements) - 1) :
               KeyBefore(StatementKey(Statements[i]), StatementKey(Statements[i + 1]))
        /\ {StatementKey(Statements[i]) : i \in 1 .. Len(Statements)}
               = {<<f, 0 - 1>> : f \in SeqToSet(functions)}
                 \cup UNION {{<<f, c>> : c \in CallKeys(fn[f])} : f \in SeqToSet(functions)}
        /\ \A i \in 1 .. Len(Statements) :
               Statements[i] =
                   IF "node" \in DOMAIN Statements[i]
                   THEN graph_node(Statements[i].node, fn[Statements[i].node], pevents[TIME])
                   ELSE graph_edge(Statements[i].edge[1],
                                   CallAt(fn[Statements[i].edge[1]].calls, Statements[i].edge[2]),
                                   fn[Statements[i].edge[2]])

\* a graph written from a profile whose functions are not in ascending
\* order and where function 0 holds its call to 2 before its call to 1
C28_WrittenFromUnsorted ==
    /\ pc = "main_done" /\ failed = ""
    /\ NotAscending(functions)
    /\ 0 \in SeqToSet(functions)
    /\ CallOrder(fn[0].calls) = <<2, 1>>
    /\ Len(Statements) = 6

-----------------------------------------------------------------------------
(* Profile.integrate: how often a total is computed *)

\* how often integrate has computed and stored the total of entry
Computed(entry) == Cardinality({k \in 1 .. Len(res) : res[k] = entry})

\* the totals integrate has to compute: one per function outside cycles, one
\* per cycle, one per call that is no self-loop and leaves the caller's cycle
TotalsDue ==
    {<<"function", f>> : f \in {g \in SeqToSet(functions) : fn[g].cycle = NoCycle}}
    \cup {<<"cycle", c>> : c \in SeqToSet(cycles)}
    \cup UNION {{<<"call", f, i>> : i \in {j \in CallsFrom(f) : LeavesCycle(f, j)}}
                   : f \in SeqToSet(functions)}

\* C25: in one run of integrate after find_cycles and call_ratios no total
\* is computed twice and the assertion 'outevent not in call' of
\* _integrate_call never fails; when integrate returns, the total of every
\* function outside cycles, of every cycle and of every call leaving its
\* caller's cycle has been computed exactly once, and no other.
C25_TotalsComputedOnce ==
    pc = "integrated" =>
        /\ failed # "assert outevent not in call"
        /\ \A k \in 1 .. Len(res) : Computed(res[k]) = 1
        /\ SeqToSet(res) \subseteq TotalsDue
        /\ failed = "" => \A entry \in TotalsDue : Computed(entry) = 1

\* integrate has returned on a profile where function 4, outside any cycle,
\* is called by function 0 and by function 2, a member of the cycle {1, 2}
C25_SharedByCycleAndOutsider ==
    /\ pc = "integrated" /\ failed = ""
    /\ fn[2].cycle # NoCycle /\ fn[1].cycle = fn[2].cycle
    /\ fn[4].cycle = NoCycle /\ fn[0].cycle = NoCycle
    /\ 4 \in Callees(0) /\ 4 \in Callees(2)
    /\ Computed(<<"function", 4>>) = 1

-----------------------------------------------------------------------------
(* Profile.find_cycles: the activations of _tarjan *)

\* how often _tarjan has been entered for the function
Entered(f) == Cardinality({k \in 1 .. Len(res) : res[k][1] = "enter" /\ res[k][2] = f})

\* the strongly connected components that make a cycle
CyclicComponents == {Component(f) : f \in {g \in Ids : Cardinality(Component(g)) > 1}}

\* no function has been entered twice
C27_EnteredOnce == \A f \in SeqToSet(functions) : Entered(f) <= 1

\* within the search from one root each activation gets a greater order than
\* the one before
C27_OrdersIncrease ==
    \A k \in 1 .. (Len(res) - 1) :
        res[k][1] = "enter" /\ res[k + 1][1] = "enter" => res[k + 1][3] > res[k][3]

\* the stack was empty whenever the search from a root returned
C27_StackEmptied == \A k \in 1 .. Len(res) : res[k][1] = "return" => res[k][3] = 0

\* no more Cycle objects exist than components that make a cycle
C27_OneCyclePerComponent == Cardinality(DOMAIN cyc) <= Cardinality(CyclicComponents)

\* C27: in one find_cycles run _tarjan enters each function at most once
\* (a function visited from an earlier root is not traversed again from a
\* later one), discovery orders are strictly increasing, the stack is empty
\* when the search from each root returns, and at most one Cycle object is
\* created per strongly connected component.
C27_SingleTraversal ==
    (pc = "cycles" /\ failed = "") =>
        /\ C27_EnteredOnce
        /\ C27_OrdersIncrease
        /\ C27_StackEmptied
        /\ C27_OneCyclePerComponent

-----------------------------------------------------------------------------
(* Profile.integrate: the aggregate input of a cycle *)

\* C26: integrate records for every cycle of Profile.cycles the sum of the
\* inevent TIME over the members of that cycle, on the Cycle itself; the
\* functions outside the cycle are not in the sum and the value is stored
\* nowhere else (the profile's own TIME stays as it was).
C26_CycleInputOnCycle ==
    [][(Integrate /\ failed' = "") =>
           /\ \A k \in 1 .. Len(cycles) :
                  /\ Has(cyc'[cycles[k]].events, TIME)
                  /\ cyc'[cycles[k]].events[TIME] =
                         SumEvent(SetToSeq(cyc[cycles[k]].functions), TIME, null(TIME))
           /\ Has(pevents', TIME) <=> Has(pevents, TIME)
           /\ Has(pevents, TIME) => pevents'[TIME] = pevents[TIME]]_vars

-----------------------------------------------------------------------------
(* Profile.call_ratios and Profile.integrate: conservation of the cost *)

\* no two functions call each other, directly or through others; a function
\* may call itself
AcyclicButSelfLoops == \A f \in SeqToSet(functions) : Component(f) = {f}

\* every call has a count and it is positive
PositiveCounts ==
    \A f \in SeqToSet(functions) : \A i \in CallsFrom(f) :
        /\ Has(fn[f].calls[i].events, CALLS)
        /\ RLt(Zero, fn[f].calls[i].events[CALLS])

\* the functions that no other function calls
Uncalled == {f \in SeqToSet(functions) : \A g \in SeqToSet(functions) \ {f} : f \notin Callees(g)}

\* C29: on a validated graph that is acyclic apart from self-loops and whose
\* calls all have a positive count, call_ratios and integrate complete and
\* the sum of TOTAL_TIME over the functions that no other function calls is
\* the sum of TIME over all functions, which is also profile[TOTAL_TIME].
C29_CostConserved ==
    (pc = "integrated" /\ AcyclicButSelfLoops /\ PositiveCounts) =>
        /\ failed = ""
        /\ RSum([j \in 1 .. Cardinality(Uncalled) |->
                   fn[SetToSeq(Uncalled)[j]].events[TOTAL_TIME]])
               = SumEvent(functions, TIME, null(TIME))
        /\ pevents[TOTAL_TIME] = SumEvent(functions, TIME, null(TIME))

\* a completed run on an acyclic graph with positive counts where function 4,
\* with a self time, is called by 2 and by 3, function 2 calls itself, and
\* more than one function is called by no other
C29_SharedCalleeTwoRoots ==
    /\ pc = "integrated" /\ failed = ""
    /\ AcyclicButSelfLoops /\ PositiveCounts
    /\ 4 \in Callees(2) /\ 4 \in Callees(3) /\ 2 \in Callees(2)
    /\ fn[4].events[TIME] # Zero
    /\ Cardinality(Uncalled) > 1
    /\ pevents[TOTAL_TIME] # Zero
====
